---- MODULE Spec2Model ----
(***************************************************************************)
(* Match / set completion engine of the rowad-speedball socket server.     *)
(*                                                                         *)
(* The persistent store (events, groups, registrations, matches, sets) is  *)
(* the state; every socket handler (createSet, updateSetScore,             *)
(* markSetPlayed, updateMatch) is one action that runs the handler from    *)
(* its first read to its last emit.  resp holds what the last handler sent *)
(* back: the error given to the requesting socket and the events it        *)
(* broadcast to the room of the match.                                     *)
(***************************************************************************)
EXTENDS Integers, Sequences, FiniteSets, TLC

VARIABLES event, groups, registrations, matches, sets, resp,
          rsPlayedSets, rsBestOf, rsMatch, rsResult,
          session, procs

dbVars == <<event, groups, registrations, matches, sets>>
\* session: the user data of the connected socket and the organization of the
\* event it works on; procs: the handlers in flight, each with its position
\* and the rows it has read (both idle where handlers run one at a time for
\* an authorized user)
rsVars == <<rsPlayedSets, rsBestOf, rsMatch, rsResult, session, procs>>
vars == <<event, groups, registrations, matches, sets, resp,
          rsPlayedSets, rsBestOf, rsMatch, rsResult, session, procs>>

(***************************************************************************)
(* Bounds                                                                  *)
(***************************************************************************)
\* longest list of played sets handed to the standings updater
MaxPlayed == 3

\* largest score a request may carry
MaxScore == 1
\* longest list of played sets handed to the majority resolver
MaxLen == 7

(***************************************************************************)
(* Identifiers and messages                                                *)
(***************************************************************************)
NULL == "null"
MatchIds == {"m1", "m2"}
RegIds == {"r1", "r2", "r3"}
GroupIds == {"g1"}
\* the largest bestOf of any scenario; set ids asked for range over it
SetNumbers == 1..3
SetIds == MatchIds \X SetNumbers

MATCH_NOT_FOUND == "Match not found"
SET_NOT_FOUND == "Set not found"
EVENT_NOT_FOUND == "Event not found"
SET_ALREADY_PLAYED == "Set is already marked as played"
MATCH_ALREADY_PLAYED == "Match is already completed"
MATCH_DATE_REQUIRED == "Match date must be set before creating sets"
MAX_SETS_REACHED == "Maximum number of sets reached for this match"
PREVIOUS_SETS_NOT_PLAYED == "All previous sets must be played before creating a new set"
DUPLICATE_SET_NUMBER == "Set number already exists"
INVALID_SCORE == "Scores must be non-negative"
SET_IMMUTABLE == "Cannot edit a set that is already marked as played"
MATCH_COMPLETED_NO_EDIT == "Cannot edit sets in a completed match"
DRAW_NOT_ALLOWED == "Cannot mark set as played: scores are equal (draw not allowed)"
SCORE_TOO_LOW == "At least one score must be greater than 0"
PREVIOUS_SETS_INCOMPLETE == "Cannot mark set as played: previous sets must be marked as played first"
UNPLAYED_SETS == "Cannot mark match as played: all sets must be marked as played first"
TIED_SERIES == "Cannot determine winner: both players won equal sets"
NO_MAJORITY == "No player has reached majority yet"
NOT_ORG_ROLE == "Only system admins, club admins, club owners, and club coaches can update events"
NOT_OWN_ORG == "You can only update events from your own organization"
DB_CHECK_VIOLATION == "violates check constraint"

\* outcomes of checkEventUpdateAuthorization: "" is authorized
AuthOutcomes == {"", NOT_ORG_ROLE, NOT_OWN_ORG}

(***************************************************************************)
(* Rows                                                                    *)
(***************************************************************************)
mkMatch(g, r1, r2, date, wTo, wSlot, lTo, lSlot) ==
  [groupId |-> g, registration1Id |-> r1, registration2Id |-> r2,
   matchDate |-> date, played |-> FALSE, winnerId |-> NULL,
   winnerTo |-> wTo, winnerToSlot |-> wSlot,
   loserTo |-> lTo, loserToSlot |-> lSlot]

mkEvent(fmt, bo) ==
  [format |-> fmt, bestOf |-> bo, pointsPerWin |-> 3, pointsPerLoss |-> 1,
   completed |-> FALSE]

newRegistration ==
  [matchesWon |-> 0, matchesLost |-> 0, setsWon |-> 0, setsLost |-> 0,
   points |-> 0]

\* a row of the sets table; its id is the pair <<matchId, setNumber>>
newSet(m, n) ==
  [matchId |-> m, setNumber |-> n, registration1Score |-> 0,
   registration2Score |-> 0, played |-> FALSE]

setId(s) == <<s.matchId, s.setNumber>>

\* select().from(sets).where(eq(sets.id, id))
setById(T, id) == {s \in T : setId(s) = id}

\* select().from(sets).where(eq(sets.matchId, m)), as a set of rows
setsOfMatch(T, m) == {s \in T : s.matchId = m}

\* .orderBy(asc(sets.setNumber)): the i-th row is the one with i-1 rows below
\* it (set numbers are unique within a match)
orderBySetNumber(S) ==
  [i \in 1..Cardinality(S) |->
     CHOOSE s \in S : Cardinality({t \in S : t.setNumber < s.setNumber}) = i - 1]

\* .filter((s) => s.played): the played rows, in order
filterPlayed(q) == SelectSeq(q, LAMBDA s : s.played)

(***************************************************************************)
(* Match completion utilities (utils/match-completion.ts)                  *)
(***************************************************************************)
\* isGroupsFormat that takes every format that is not an elimination format
isGroupsFormat_notElimination(format) ==
  format # "single-elimination" /\ format # "double-elimination"

isGroupsFormat(format) == format = "groups" \/ format = "groups-knockout"

isSingleEliminationFormat(format) == format = "single-elimination"

isDoubleEliminationFormat(format) == format = "double-elimination"

\* majorityOf with Math.floor in place of Math.ceil
majorityOf_floor(bestOf) == bestOf \div 2

\* Math.ceil(bestOf / 2) on a non-negative integer
majorityOf(bestOf) == (bestOf + 1) \div 2

RECURSIVE registration1Wins(_)
\* the loop's first counter: sets with score1 > score2
registration1Wins(q) ==
  IF q = <<>> THEN 0
  ELSE (IF Head(q).registration1Score > Head(q).registration2Score THEN 1 ELSE 0)
       + registration1Wins(Tail(q))

RECURSIVE registration2Wins(_)
\* the loop's second counter: sets with score2 > score1 (the else-if branch)
registration2Wins(q) ==
  IF q = <<>> THEN 0
  ELSE (IF Head(q).registration1Score > Head(q).registration2Score THEN 0
        ELSE IF Head(q).registration2Score > Head(q).registration1Score THEN 1
        ELSE 0)
       + registration2Wins(Tail(q))

\* checkMajorityAndGetWinner with > majority in place of >= majority
checkMajorityAndGetWinner_strict(playedSets, bestOf, match) ==
  LET majority == majorityOf(bestOf)
      w1 == registration1Wins(playedSets)
      w2 == registration2Wins(playedSets)
  IN  IF w1 > majority \/ w2 > majority
      THEN [winnerId |-> IF w1 > majority THEN match.registration1Id
                         ELSE match.registration2Id,
            completed |-> TRUE]
      ELSE [winnerId |-> NULL, completed |-> FALSE]

checkMajorityAndGetWinner(playedSets, bestOf, match) ==
  LET majority == majorityOf(bestOf)
      w1 == registration1Wins(playedSets)
      w2 == registration2Wins(playedSets)
  IN  IF w1 >= majority \/ w2 >= majority
      THEN [winnerId |-> IF w1 >= majority THEN match.registration1Id
                         ELSE match.registration2Id,
            completed |-> TRUE]
      ELSE [winnerId |-> NULL, completed |-> FALSE]

calculateMatchPoints(winnerId, registration1Id, registration2Id, pointsPerWin, pointsPerLoss) ==
  LET registration1Won == winnerId = registration1Id
      registration2Won == winnerId = registration2Id
  IN  [registration1Points |-> IF registration1Won THEN pointsPerWin ELSE pointsPerLoss,
       registration2Points |-> IF registration2Won THEN pointsPerWin ELSE pointsPerLoss,
       registration1Won |-> registration1Won,
       registration2Won |-> registration2Won]

\* calculateSetPoints that gives both sides the tally of registration 1
calculateSetPoints_sameTally(setResults) ==
  [registration1SetsWon |-> registration1Wins(setResults),
   registration1SetsLost |-> registration2Wins(setResults),
   registration2SetsWon |-> registration1Wins(setResults),
   registration2SetsLost |-> registration2Wins(setResults)]

calculateSetPoints(setResults) ==
  [registration1SetsWon |-> registration1Wins(setResults),
   registration1SetsLost |-> registration2Wins(setResults),
   registration2SetsWon |-> registration2Wins(setResults),
   registration2SetsLost |-> registration1Wins(setResults)]

\* addStanding that stores the awarded points in place of adding them
addStanding_overwritePoints(R, id, won, points, setsWon, setsLost) ==
  IF id \notin DOMAIN R THEN R
  ELSE [R EXCEPT ![id] =
         [matchesWon |-> R[id].matchesWon + (IF won THEN 1 ELSE 0),
          matchesLost |-> R[id].matchesLost + (IF won THEN 0 ELSE 1),
          setsWon |-> R[id].setsWon + setsWon,
          setsLost |-> R[id].setsLost + setsLost,
          points |-> points]]

\* one read-then-write of a registration row; no row, no write
addStanding(R, id, won, points, setsWon, setsLost) ==
  IF id \notin DOMAIN R THEN R
  ELSE [R EXCEPT ![id] =
         [matchesWon |-> R[id].matchesWon + (IF won THEN 1 ELSE 0),
          matchesLost |-> R[id].matchesLost + (IF won THEN 0 ELSE 1),
          setsWon |-> R[id].setsWon + setsWon,
          setsLost |-> R[id].setsLost + setsLost,
          points |-> R[id].points + points]]

updateRegistrationStandings(R, registration1Id, registration2Id, matchResult, setResults) ==
  LET R1 == addStanding(R, registration1Id, matchResult.registration1Won,
                        matchResult.registration1Points,
                        setResults.registration1SetsWon,
                        setResults.registration1SetsLost)
  IN  addStanding(R1, registration2Id, matchResult.registration2Won,
                  matchResult.registration2Points,
                  setResults.registration2SetsWon,
                  setResults.registration2SetsLost)

handleGroupsMatchCompletion(R, match, ev, winnerId, playedSets) ==
  IF match.registration1Id = NULL \/ match.registration2Id = NULL THEN R
  ELSE updateRegistrationStandings(R, match.registration1Id, match.registration2Id,
         calculateMatchPoints(winnerId, match.registration1Id, match.registration2Id,
                              ev.pointsPerWin, ev.pointsPerLoss),
         calculateSetPoints(playedSets))

\* advanceWinnerToNextMatch with the two slots exchanged
advanceWinnerToNextMatch_otherSlot(M, nextMatchId, slot, winnerId) ==
  IF nextMatchId \notin DOMAIN M THEN M
  ELSE IF slot = 1 THEN [M EXCEPT ![nextMatchId].registration2Id = winnerId]
       ELSE [M EXCEPT ![nextMatchId].registration1Id = winnerId]

\* update(matches).set({[updateField]: winnerId}).where(eq(matches.id, nextMatchId))
advanceWinnerToNextMatch(M, nextMatchId, slot, winnerId) ==
  IF nextMatchId \notin DOMAIN M THEN M
  ELSE IF slot = 1 THEN [M EXCEPT ![nextMatchId].registration1Id = winnerId]
       ELSE [M EXCEPT ![nextMatchId].registration2Id = winnerId]

handleSingleEliminationMatchCompletion(M, match, winnerId) ==
  IF match.winnerTo # NULL /\ match.winnerToSlot # 0 /\ winnerId # NULL
  THEN advanceWinnerToNextMatch(M, match.winnerTo, match.winnerToSlot, winnerId)
  ELSE M

updateGroupCompletionStatus(G, M, groupId) ==
  LET allMatchesPlayed == \A m \in DOMAIN M : M[m].groupId = groupId => M[m].played
  IN  IF groupId \in DOMAIN G THEN [G EXCEPT ![groupId].completed = allMatchesPlayed]
      ELSE G

\* updateEventCompletedStatus with "some match is played" in place of
\* "no match is unplayed"
updateEventCompletedStatus_somePlayed(ev, M) ==
  IF DOMAIN M = {} THEN [ev EXCEPT !.completed = FALSE]
  ELSE [ev EXCEPT !.completed = \E m \in DOMAIN M : M[m].played]

\* every match of the store belongs to the one event
updateEventCompletedStatus(ev, M) ==
  IF DOMAIN M = {} THEN [ev EXCEPT !.completed = FALSE]
  ELSE LET hasUnplayedMatches == \E m \in DOMAIN M : ~M[m].played
       IN  [ev EXCEPT !.completed = ~hasUnplayedMatches]

(***************************************************************************)
(* Validation (utils/validation.ts); "" is { valid: true }                 *)
(***************************************************************************)
\* validateSetScore without the check that the set is already played
validateSetScore_noImmutable(T, M, id, registration1Score, registration2Score) ==
  IF registration1Score < 0 \/ registration2Score < 0 THEN INVALID_SCORE
  ELSE IF setById(T, id) = {} THEN SET_NOT_FOUND
  ELSE LET setData == CHOOSE s \in setById(T, id) : TRUE
       IN  IF setData.matchId \notin DOMAIN M THEN MATCH_NOT_FOUND
           ELSE IF M[setData.matchId].played THEN MATCH_COMPLETED_NO_EDIT
           ELSE ""

validateSetScore(T, M, id, registration1Score, registration2Score) ==
  IF registration1Score < 0 \/ registration2Score < 0 THEN INVALID_SCORE
  ELSE IF setById(T, id) = {} THEN SET_NOT_FOUND
  ELSE LET setData == CHOOSE s \in setById(T, id) : TRUE
       IN  IF setData.played THEN SET_IMMUTABLE
           ELSE IF setData.matchId \notin DOMAIN M THEN MATCH_NOT_FOUND
           ELSE IF M[setData.matchId].played THEN MATCH_COMPLETED_NO_EDIT
           ELSE ""

\* validateSetPlayed without the loop over the previous sets
validateSetPlayed_noOrder(T, id, registration1Score, registration2Score) ==
  IF registration1Score = registration2Score THEN DRAW_NOT_ALLOWED
  ELSE IF registration1Score <= 0 /\ registration2Score <= 0 THEN SCORE_TOO_LOW
  ELSE IF setById(T, id) = {} THEN SET_NOT_FOUND
  ELSE ""

\* validateSetPlayed without the check for equal scores
validateSetPlayed_allowDraw(T, id, registration1Score, registration2Score) ==
  IF registration1Score <= 0 /\ registration2Score <= 0 THEN SCORE_TOO_LOW
  ELSE IF setById(T, id) = {} THEN SET_NOT_FOUND
  ELSE LET setData == CHOOSE s \in setById(T, id) : TRUE
           allSets == setsOfMatch(T, setData.matchId)
       IN  IF \E i \in 0..(setData.setNumber - 2) :
                 \/ ~\E s \in allSets : s.setNumber = i + 1
                 \/ \E s \in allSets : s.setNumber = i + 1 /\ ~s.played
           THEN PREVIOUS_SETS_INCOMPLETE
           ELSE ""

validateSetPlayed(T, id, registration1Score, registration2Score) ==
  IF registration1Score = registration2Score THEN DRAW_NOT_ALLOWED
  ELSE IF registration1Score <= 0 /\ registration2Score <= 0 THEN SCORE_TOO_LOW
  ELSE IF setById(T, id) = {} THEN SET_NOT_FOUND
  ELSE LET setData == CHOOSE s \in setById(T, id) : TRUE
           allSets == setsOfMatch(T, setData.matchId)
       IN  IF \E i \in 0..(setData.setNumber - 2) :
                 \/ ~\E s \in allSets : s.setNumber = i + 1
                 \/ \E s \in allSets : s.setNumber = i + 1 /\ ~s.played
           THEN PREVIOUS_SETS_INCOMPLETE
           ELSE ""

\* validateMatchCompletion without the check that every set is played
validateMatchCompletion_ignoreUnplayed(T, M, ev, matchId) ==
  IF matchId \notin DOMAIN M THEN [valid |-> FALSE, error |-> MATCH_NOT_FOUND, winnerId |-> NULL]
  ELSE
  LET match == M[matchId]
      playedSets == filterPlayed(orderBySetNumber(setsOfMatch(T, matchId)))
      w1 == registration1Wins(playedSets)
      w2 == registration2Wins(playedSets)
      majority == majorityOf(ev.bestOf)
  IN  IF w1 = w2
      THEN [valid |-> FALSE, error |-> TIED_SERIES, winnerId |-> NULL]
      ELSE IF w1 < majority /\ w2 < majority
      THEN [valid |-> FALSE, error |-> NO_MAJORITY, winnerId |-> NULL]
      ELSE [valid |-> TRUE, error |-> "",
            winnerId |-> IF w1 >= majority THEN match.registration1Id
                         ELSE match.registration2Id]

validateMatchCompletion(T, M, ev, matchId) ==
  IF matchId \notin DOMAIN M THEN [valid |-> FALSE, error |-> MATCH_NOT_FOUND, winnerId |-> NULL]
  ELSE
  LET match == M[matchId]
      allSets == orderBySetNumber(setsOfMatch(T, matchId))
      playedSets == filterPlayed(allSets)
      w1 == registration1Wins(playedSets)
      w2 == registration2Wins(playedSets)
      majority == majorityOf(ev.bestOf)
  IN  IF Len(playedSets) < Len(allSets)
      THEN [valid |-> FALSE, error |-> UNPLAYED_SETS, winnerId |-> NULL]
      ELSE IF w1 = w2
      THEN [valid |-> FALSE, error |-> TIED_SERIES, winnerId |-> NULL]
      ELSE IF w1 < majority /\ w2 < majority
      THEN [valid |-> FALSE, error |-> NO_MAJORITY, winnerId |-> NULL]
      ELSE [valid |-> TRUE, error |-> "",
            winnerId |-> IF w1 >= majority THEN match.registration1Id
                         ELSE match.registration2Id]

(***************************************************************************)
(* The brackets the store starts from (built by the tournament system)     *)
(***************************************************************************)
ScenarioGroups3 ==
  [event |-> mkEvent("groups", 3),
   matches |-> [m \in {"m1"} |-> mkMatch("g1", "r1", "r2", TRUE, NULL, 0, NULL, 0)]]

ScenarioGroups1 ==
  [event |-> mkEvent("groups-knockout", 1),
   matches |-> [m \in {"m1", "m2"} |->
      IF m = "m1" THEN mkMatch("g1", "r1", "r2", TRUE, NULL, 0, NULL, 0)
      ELSE mkMatch("g1", "r1", "r3", FALSE, NULL, 0, NULL, 0)]]

ScenarioSingleElimination ==
  [event |-> mkEvent("single-elimination", 1),
   matches |-> [m \in {"m1", "m2"} |->
      IF m = "m1" THEN mkMatch(NULL, "r1", "r2", TRUE, "m2", 1, NULL, 0)
      ELSE mkMatch(NULL, NULL, "r3", TRUE, NULL, 0, NULL, 0)]]

Scenarios == {ScenarioGroups3, ScenarioGroups1, ScenarioSingleElimination}

\* resp: the handler that ran last, the row it was asked about (a set id, or
\* <<matchId, 0>> for a match), the error sent to the requester and the
\* events broadcast to the room match_<matchId>, in order
NoResp == [op |-> "none", target |-> <<NULL, 0>>, err |-> "", emitted |-> <<>>]

Replied(op, target, events) ==
  [op |-> op, target |-> target, err |-> "", emitted |-> events]

NoSession == [userData |-> NULL, organizationId |-> NULL]

rsIdle ==
  /\ rsPlayedSets = <<>>
  /\ rsBestOf = 1
  /\ rsMatch = [registration1Id |-> NULL, registration2Id |-> NULL]
  /\ rsResult = [winnerId |-> NULL, completed |-> FALSE]
  /\ session = NoSession
  /\ procs = <<>>

Init ==
  /\ \E sc \in Scenarios :
       /\ event = sc.event
       /\ matches = sc.matches
  /\ groups = [g \in GroupIds |-> [completed |-> FALSE]]
  /\ registrations = [r \in RegIds |-> newRegistration]
  /\ sets = {}
  /\ resp = NoResp
  /\ rsIdle

(***************************************************************************)
(* Handlers                                                                *)
(***************************************************************************)
\* socket.emit(SOCKET_EVENTS.ERROR, e); return
Rejected(op, target, e) ==
  /\ resp' = [op |-> op, target |-> target, err |-> e, emitted |-> <<>>]
  /\ UNCHANGED dbVars

\* setNumber ?? existingSets.length + 1
calculatedSetNumber(existingSets, given, setNumber) ==
  IF given THEN setNumber ELSE Cardinality(existingSets) + 1

\* createSetRejection with the bestOf comparison off by one
createSetRejection_offByOne(T, M, ev, matchId, given, setNumber, auth) ==
  IF matchId \notin DOMAIN M THEN MATCH_NOT_FOUND
  ELSE IF auth # "" THEN auth
  ELSE IF M[matchId].played THEN MATCH_ALREADY_PLAYED
  ELSE IF ~M[matchId].matchDate THEN MATCH_DATE_REQUIRED
  ELSE LET existingSets == setsOfMatch(T, matchId)
           n == calculatedSetNumber(existingSets, given, setNumber)
       IN  IF n > ev.bestOf + 1 THEN MAX_SETS_REACHED
           ELSE IF \E s \in existingSets : s.setNumber = n THEN DUPLICATE_SET_NUMBER
           ELSE IF /\ existingSets # {}
                   /\ \E s \in existingSets : s.setNumber < n /\ ~s.played
                THEN PREVIOUS_SETS_NOT_PLAYED
           ELSE ""

\* the early returns of createSet, in order; "" when the insert is reached
createSetRejection(T, M, ev, matchId, given, setNumber, auth) ==
  IF matchId \notin DOMAIN M THEN MATCH_NOT_FOUND
  ELSE IF auth # "" THEN auth
  ELSE IF M[matchId].played THEN MATCH_ALREADY_PLAYED
  ELSE IF ~M[matchId].matchDate THEN MATCH_DATE_REQUIRED
  ELSE LET existingSets == setsOfMatch(T, matchId)
           n == calculatedSetNumber(existingSets, given, setNumber)
       IN  IF n > ev.bestOf THEN MAX_SETS_REACHED
           ELSE IF \E s \in existingSets : s.setNumber = n THEN DUPLICATE_SET_NUMBER
           ELSE IF /\ existingSets # {}
                   /\ \E s \in existingSets : s.setNumber < n /\ ~s.played
                THEN PREVIOUS_SETS_NOT_PLAYED
           ELSE ""

\* the constraints of the sets table that an insert can violate
insertSetViolation(T, row) ==
  \/ row.setNumber <= 0
  \/ row.registration1Score < 0
  \/ row.registration2Score < 0
  \/ \E s \in T : s.matchId = row.matchId /\ s.setNumber = row.setNumber

createSet(matchId, given, setNumber, auth) ==
  LET rej == createSetRejection(sets, matches, event, matchId, given, setNumber, auth)
  IN  IF rej # "" THEN Rejected("createSet", <<matchId, 0>>, rej)
      ELSE LET n == calculatedSetNumber(setsOfMatch(sets, matchId), given, setNumber)
               createdSet == newSet(matchId, n)
           IN  IF insertSetViolation(sets, createdSet)
               THEN Rejected("createSet", <<matchId, 0>>, DB_CHECK_VIOLATION)
               ELSE /\ sets' = sets \cup {createdSet}
                    /\ resp' = Replied("createSet", <<matchId, 0>>,
                                        <<[name |-> "set-created", matchId |-> matchId,
                                           set |-> createdSet]>>)
                    /\ UNCHANGED <<event, groups, registrations, matches>>

\* the early returns of updateSetScore, in order; "" when the update is reached
updateSetScoreRejection(T, M, id, registration1Score, registration2Score, played, auth) ==
  IF setById(T, id) = {} THEN SET_NOT_FOUND
  ELSE IF id[1] \notin DOMAIN M THEN MATCH_NOT_FOUND
  ELSE IF auth # "" THEN auth
  ELSE LET setData == CHOOSE s \in setById(T, id) : TRUE
           validation == validateSetScore(T, M, id, registration1Score, registration2Score)
       IN  IF validation # "" THEN validation
           ELSE IF played /\ ~setData.played
                THEN validateSetPlayed(T, id, registration1Score, registration2Score)
                ELSE ""

\* the row written by update(sets).set(updateData)
updateData(setData, registration1Score, registration2Score, played) ==
  [setData EXCEPT !.registration1Score = registration1Score,
                  !.registration2Score = registration2Score,
                  !.played = IF played /\ ~setData.played THEN TRUE ELSE setData.played]

\* updateSetScore that writes the scores before validateSetPlayed is consulted
updateSetScore_scoresFirst(id, registration1Score, registration2Score, played, auth) ==
  LET rej == updateSetScoreRejection(sets, matches, id, registration1Score,
                                     registration2Score, played, auth)
      early == updateSetScoreRejection(sets, matches, id, registration1Score,
                                       registration2Score, FALSE, auth)
  IN  IF early # "" THEN Rejected("updateSetScore", id, early)
      ELSE LET setData == CHOOSE s \in setById(sets, id) : TRUE
               updated == updateData(setData, registration1Score, registration2Score,
                                     played /\ rej = "")
           IN  /\ sets' = (sets \ {setData}) \cup {updated}
               /\ resp' = IF rej # ""
                          THEN [op |-> "updateSetScore", target |-> id, err |-> rej,
                                emitted |-> <<>>]
                          ELSE Replied("updateSetScore", id,
                                   <<[name |-> "match-score-updated",
                                      matchId |-> updated.matchId,
                                      setId |-> id,
                                      registration1Score |-> updated.registration1Score,
                                      registration2Score |-> updated.registration2Score,
                                      setNumber |-> updated.setNumber,
                                      played |-> updated.played]>>)
               /\ UNCHANGED <<event, groups, registrations, matches>>

updateSetScore(id, registration1Score, registration2Score, played, auth) ==
  LET rej == updateSetScoreRejection(sets, matches, id, registration1Score,
                                     registration2Score, played, auth)
  IN  IF rej # "" THEN Rejected("updateSetScore", id, rej)
      ELSE LET setData == CHOOSE s \in setById(sets, id) : TRUE
               updated == updateData(setData, registration1Score, registration2Score, played)
           IN  /\ sets' = (sets \ {setData}) \cup {updated}
               /\ resp' = Replied("updateSetScore", id,
                                   <<[name |-> "match-score-updated",
                                      matchId |-> updated.matchId,
                                      setId |-> id,
                                      registration1Score |-> updated.registration1Score,
                                      registration2Score |-> updated.registration2Score,
                                      setNumber |-> updated.setNumber,
                                      played |-> updated.played]>>)
               /\ UNCHANGED <<event, groups, registrations, matches>>

\* markSetPlayedRejection without the check that the set is already played
markSetPlayedRejection_noAlreadyPlayed(T, M, id, auth) ==
  IF setById(T, id) = {} THEN SET_NOT_FOUND
  ELSE LET setData == CHOOSE s \in setById(T, id) : TRUE
       IN  IF setData.matchId \notin DOMAIN M THEN MATCH_NOT_FOUND
           ELSE IF auth # "" THEN auth
           ELSE validateSetPlayed(T, id, setData.registration1Score,
                                  setData.registration2Score)

\* the early returns of markSetPlayed, in order; "" when the update is reached
markSetPlayedRejection(T, M, id, auth) ==
  IF setById(T, id) = {} THEN SET_NOT_FOUND
  ELSE LET setData == CHOOSE s \in setById(T, id) : TRUE
       IN  IF setData.played THEN SET_ALREADY_PLAYED
           ELSE IF setData.matchId \notin DOMAIN M THEN MATCH_NOT_FOUND
           ELSE IF auth # "" THEN auth
           ELSE validateSetPlayed(T, id, setData.registration1Score,
                                  setData.registration2Score)

markSetPlayed(id, auth) ==
  LET rej == markSetPlayedRejection(sets, matches, id, auth)
  IN  IF rej # "" THEN Rejected("markSetPlayed", id, rej)
      ELSE
      LET setData == CHOOSE s \in setById(sets, id) : TRUE
          matchId == setData.matchId
          match == matches[matchId]
          updated == [setData EXCEPT !.played = TRUE]
          T1 == (sets \ {setData}) \cup {updated}
          playedSets == filterPlayed(orderBySetNumber(setsOfMatch(T1, matchId)))
          majorityResult == checkMajorityAndGetWinner(playedSets, event.bestOf, match)
          matchCompleted == majorityResult.completed /\ majorityResult.winnerId # NULL
          winnerId == IF matchCompleted THEN majorityResult.winnerId ELSE NULL
          M1 == IF matchCompleted
                THEN [matches EXCEPT ![matchId].played = TRUE,
                                     ![matchId].winnerId = winnerId]
                ELSE matches
          R1 == IF matchCompleted /\ isGroupsFormat(event.format)
                THEN handleGroupsMatchCompletion(registrations, match, event,
                                                 winnerId, playedSets)
                ELSE registrations
          M2 == IF /\ matchCompleted
                   /\ ~isGroupsFormat(event.format)
                   /\ isSingleEliminationFormat(event.format)
                THEN handleSingleEliminationMatchCompletion(M1, match, winnerId)
                ELSE M1
          G1 == IF matchCompleted /\ match.groupId # NULL
                THEN updateGroupCompletionStatus(groups, M2, match.groupId)
                ELSE groups
          E1 == IF matchCompleted THEN updateEventCompletedStatus(event, M2) ELSE event
          matchCompletedData == [name |-> "match-completed", matchId |-> matchId,
                                 winnerId |-> winnerId]
          setPlayedData == [name |-> "set-played", matchId |-> matchId,
                            set |-> updated, matchCompleted |-> matchCompleted,
                            winnerId |-> winnerId]
      IN  /\ sets' = T1
          /\ matches' = M2
          /\ registrations' = R1
          /\ groups' = G1
          /\ event' = E1
          /\ resp' = Replied("markSetPlayed", id,
                              (IF matchCompleted THEN <<matchCompletedData>> ELSE <<>>)
                              \o <<setPlayedData>>)

\* values a request may give for an optional field
PlayedInputs == {"undefined", "true", "false"}
MatchDateInputs == {"undefined", "date"}

\* updateMatch that, when it unmarks a match, also reopens the sets of the match
updateMatch_reopenSets(matchId, played, matchDate, auth) ==
  IF matchId \notin DOMAIN matches
  THEN Rejected("updateMatch", <<matchId, 0>>, MATCH_NOT_FOUND)
  ELSE IF auth # "" THEN Rejected("updateMatch", <<matchId, 0>>, auth)
  ELSE
  LET match == matches[matchId]
      marking == played = "true" /\ ~match.played
      unmarking == played = "false" /\ match.played
      validation == validateMatchCompletion(sets, matches, event, matchId)
  IN  IF marking /\ ~validation.valid
      THEN Rejected("updateMatch", <<matchId, 0>>, validation.error)
      ELSE
      LET newPlayed == IF marking THEN TRUE ELSE IF unmarking THEN FALSE ELSE match.played
          newWinnerId == IF marking THEN validation.winnerId
                         ELSE IF unmarking THEN NULL ELSE match.winnerId
          newMatchDate == IF matchDate = "undefined" THEN match.matchDate
                          ELSE matchDate = "date"
          updatedMatch == [match EXCEPT !.played = newPlayed, !.winnerId = newWinnerId,
                                        !.matchDate = newMatchDate]
      IN  /\ matches' = [matches EXCEPT ![matchId] = updatedMatch]
          /\ sets' = IF unmarking
                     THEN {IF s.matchId = matchId THEN [s EXCEPT !.played = FALSE] ELSE s
                           : s \in sets}
                     ELSE sets
          /\ resp' = Replied("updateMatch", <<matchId, 0>>,
                              <<[name |-> "match-updated", matchId |-> matchId,
                                 played |-> updatedMatch.played,
                                 matchDate |-> updatedMatch.matchDate,
                                 winnerId |-> updatedMatch.winnerId]>>)
          /\ UNCHANGED <<event, groups, registrations>>

\* updateMatch that, when it unmarks a match, leaves its winnerId in place
updateMatch_keepWinner(matchId, played, matchDate, auth) ==
  IF matchId \notin DOMAIN matches
  THEN Rejected("updateMatch", <<matchId, 0>>, MATCH_NOT_FOUND)
  ELSE IF auth # "" THEN Rejected("updateMatch", <<matchId, 0>>, auth)
  ELSE
  LET match == matches[matchId]
      marking == played = "true" /\ ~match.played
      unmarking == played = "false" /\ match.played
      validation == validateMatchCompletion(sets, matches, event, matchId)
  IN  IF marking /\ ~validation.valid
      THEN Rejected("updateMatch", <<matchId, 0>>, validation.error)
      ELSE
      LET newPlayed == IF marking THEN TRUE ELSE IF unmarking THEN FALSE ELSE match.played
          newWinnerId == IF marking THEN validation.winnerId
                         ELSE match.winnerId
          newMatchDate == IF matchDate = "undefined" THEN match.matchDate
                          ELSE matchDate = "date"
          updatedMatch == [match EXCEPT !.played = newPlayed, !.winnerId = newWinnerId,
                                        !.matchDate = newMatchDate]
          completedEvents == IF marking /\ validation.winnerId # NULL
                             THEN <<[name |-> "match-completed", matchId |-> matchId,
                                     winnerId |-> validation.winnerId]>>
                             ELSE <<>>
      IN  /\ matches' = [matches EXCEPT ![matchId] = updatedMatch]
          /\ resp' = Replied("updateMatch", <<matchId, 0>>,
                              completedEvents \o
                              <<[name |-> "match-updated", matchId |-> matchId,
                                 played |-> updatedMatch.played,
                                 matchDate |-> updatedMatch.matchDate,
                                 winnerId |-> updatedMatch.winnerId]>>)
          /\ UNCHANGED <<event, groups, registrations, sets>>

\* updateMatch that, when it unmarks a match, recomputes the completed flags
\* of the group and of the event
updateMatch_recomputeFlags(matchId, played, matchDate, auth) ==
  IF matchId \notin DOMAIN matches
  THEN Rejected("updateMatch", <<matchId, 0>>, MATCH_NOT_FOUND)
  ELSE IF auth # "" THEN Rejected("updateMatch", <<matchId, 0>>, auth)
  ELSE
  LET match == matches[matchId]
      marking == played = "true" /\ ~match.played
      unmarking == played = "false" /\ match.played
      validation == validateMatchCompletion(sets, matches, event, matchId)
  IN  IF marking /\ ~validation.valid
      THEN Rejected("updateMatch", <<matchId, 0>>, validation.error)
      ELSE
      LET newPlayed == IF marking THEN TRUE ELSE IF unmarking THEN FALSE ELSE match.played
          newWinnerId == IF marking THEN validation.winnerId
                         ELSE IF unmarking THEN NULL ELSE match.winnerId
          newMatchDate == IF matchDate = "undefined" THEN match.matchDate
                          ELSE matchDate = "date"
          updatedMatch == [match EXCEPT !.played = newPlayed, !.winnerId = newWinnerId,
                                        !.matchDate = newMatchDate]
          completedEvents == IF marking /\ validation.winnerId # NULL
                             THEN <<[name |-> "match-completed", matchId |-> matchId,
                                     winnerId |-> validation.winnerId]>>
                             ELSE <<>>
      IN  /\ matches' = [matches EXCEPT ![matchId] = updatedMatch]
          /\ resp' = Replied("updateMatch", <<matchId, 0>>,
                              completedEvents \o
                              <<[name |-> "match-updated", matchId |-> matchId,
                                 played |-> updatedMatch.played,
                                 matchDate |-> updatedMatch.matchDate,
                                 winnerId |-> updatedMatch.winnerId]>>)
          /\ groups' = IF unmarking /\ match.groupId # NULL
                       THEN updateGroupCompletionStatus(
                              groups, [matches EXCEPT ![matchId] = updatedMatch],
                              match.groupId)
                       ELSE groups
          /\ event' = IF unmarking
                      THEN updateEventCompletedStatus(
                             event, [matches EXCEPT ![matchId] = updatedMatch])
                      ELSE event
          /\ UNCHANGED <<registrations, sets>>

updateMatch(matchId, played, matchDate, auth) ==
  IF matchId \notin DOMAIN matches
  THEN Rejected("updateMatch", <<matchId, 0>>, MATCH_NOT_FOUND)
  ELSE IF auth # "" THEN Rejected("updateMatch", <<matchId, 0>>, auth)
  ELSE
  LET match == matches[matchId]
      marking == played = "true" /\ ~match.played
      unmarking == played = "false" /\ match.played
      validation == validateMatchCompletion(sets, matches, event, matchId)
  IN  IF marking /\ ~validation.valid
      THEN Rejected("updateMatch", <<matchId, 0>>, validation.error)
      ELSE
      LET newPlayed == IF marking THEN TRUE ELSE IF unmarking THEN FALSE ELSE match.played
          newWinnerId == IF marking THEN validation.winnerId
                         ELSE IF unmarking THEN NULL ELSE match.winnerId
          newMatchDate == IF matchDate = "undefined" THEN match.matchDate
                          ELSE matchDate = "date"
          updatedMatch == [match EXCEPT !.played = newPlayed, !.winnerId = newWinnerId,
                                        !.matchDate = newMatchDate]
          completedEvents == IF marking /\ validation.winnerId # NULL
                             THEN <<[name |-> "match-completed", matchId |-> matchId,
                                     winnerId |-> validation.winnerId]>>
                             ELSE <<>>
      IN  /\ matches' = [matches EXCEPT ![matchId] = updatedMatch]
          /\ resp' = Replied("updateMatch", <<matchId, 0>>,
                              completedEvents \o
                              <<[name |-> "match-updated", matchId |-> matchId,
                                 played |-> updatedMatch.played,
                                 matchDate |-> updatedMatch.matchDate,
                                 winnerId |-> updatedMatch.winnerId]>>)
          /\ UNCHANGED <<event, groups, registrations, sets>>

(***************************************************************************)
(* Requests                                                                *)
(***************************************************************************)
\* proposed scores: the draws and the one-point leads up to MaxScore, and a
\* negative score on either side
ScorePairs ==
  {<<k, k>> : k \in 0..MaxScore}
  \cup {<<k, k - 1>> : k \in 1..MaxScore}
  \cup {<<k - 1, k>> : k \in 1..MaxScore}
  \cup {<<0 - 1, 0>>, <<0, 0 - 1>>}

\* the two refusals of checkEventUpdateAuthorization
Denials == AuthOutcomes \ {""}

\* ids a request may name: every stored set and one id that is not stored
SetIdInputs == {setId(s) : s \in sets} \cup {<<"m2", 3>>}

CreateSet ==
  /\ \E matchId \in MatchIds :
       \/ \E auth \in AuthOutcomes : createSet(matchId, FALSE, 0, auth)
       \/ \E setNumber \in 0..4 : createSet(matchId, TRUE, setNumber, "")
  /\ UNCHANGED rsVars

UpdateSetScore ==
  /\ \E id \in SetIdInputs :
       \/ \E sc \in ScorePairs, played \in BOOLEAN :
            updateSetScore(id, sc[1], sc[2], played, "")
       \/ \E auth \in Denials : updateSetScore(id, 0, 0, FALSE, auth)
  /\ UNCHANGED rsVars

MarkSetPlayed ==
  /\ \E id \in SetIdInputs, auth \in AuthOutcomes : markSetPlayed(id, auth)
  /\ UNCHANGED rsVars

UpdateMatch ==
  /\ \E matchId \in MatchIds :
       \/ \E played \in PlayedInputs, matchDate \in MatchDateInputs :
            updateMatch(matchId, played, matchDate, "")
       \/ \E auth \in Denials : updateMatch(matchId, "true", "undefined", auth)
  /\ UNCHANGED rsVars

Next == CreateSet \/ UpdateSetScore \/ MarkSetPlayed \/ UpdateMatch

Spec == Init /\ [][Next]_vars

(***************************************************************************)
(* The majority resolver on its own: a list of played sets grows one set   *)
(* at a time and checkMajorityAndGetWinner is applied to every list.       *)
(***************************************************************************)
BestOfValues == {1, 3, 5, 7}

\* a set won by registration 1, a set won by registration 2, a drawn set
RsSetResults ==
  {[registration1Score |-> 1, registration2Score |-> 0],
   [registration1Score |-> 0, registration2Score |-> 1],
   [registration1Score |-> 1, registration2Score |-> 1]}

InitResolver ==
  /\ event = ScenarioGroups3.event
  /\ matches = ScenarioGroups3.matches
  /\ groups = [g \in GroupIds |-> [completed |-> FALSE]]
  /\ registrations = [r \in RegIds |-> newRegistration]
  /\ sets = {}
  /\ resp = NoResp
  /\ rsPlayedSets = <<>>
  /\ rsBestOf \in BestOfValues
  /\ rsMatch \in [registration1Id : {NULL, "r1"}, registration2Id : {NULL, "r2"}]
  /\ rsResult = checkMajorityAndGetWinner(<<>>, rsBestOf, rsMatch)
  /\ session = NoSession
  /\ procs = <<>>

Resolve ==
  /\ Len(rsPlayedSets) < MaxLen
  /\ \E r \in RsSetResults : rsPlayedSets' = Append(rsPlayedSets, r)
  /\ rsResult' = checkMajorityAndGetWinner(rsPlayedSets', rsBestOf, rsMatch)
  /\ UNCHANGED <<rsBestOf, rsMatch, event, groups, registrations, matches, sets, resp,
                 session, procs>>

SpecResolver == InitResolver /\ [][Resolve]_vars

(***************************************************************************)
(* Properties                                                              *)
(***************************************************************************)
\* ceil(b / 2), stated without division
Majority(b) == CHOOSE k \in 0..b : 2 * k >= b /\ 2 * (k - 1) < b

\* played sets of match m won by side 1 / side 2 in table T
SetsWon1(T, m) ==
  Cardinality({s \in T : s.matchId = m /\ s.played
                         /\ s.registration1Score > s.registration2Score})

SetsWon2(T, m) ==
  Cardinality({s \in T : s.matchId = m /\ s.played
                         /\ s.registration2Score > s.registration1Score})

Emitted(r) == {r.emitted[i] : i \in DOMAIN r.emitted}

MatchCompletedEvent(m, w) == [name |-> "match-completed", matchId |-> m, winnerId |-> w]

\* C1: a successful markSetPlayed on a set of an unplayed match stores
\* played=true and winnerId=W and broadcasts match-completed(W) when
\* registration W has won at least ceil(bestOf/2) of the played sets, and
\* otherwise leaves the match unplayed with no winner and no match-completed.
C1_SetDrivenCompletion ==
  [][ (/\ resp'.op = "markSetPlayed"
       /\ resp'.err = ""
       /\ ~matches[resp'.target[1]].played)
      => LET m == resp'.target[1]
             maj == Majority(event.bestOf)
             reg1 == matches[m].registration1Id
             reg2 == matches[m].registration2Id
             won1 == SetsWon1(sets', m) >= maj /\ reg1 # NULL
             won2 == SetsWon2(sets', m) >= maj /\ reg2 # NULL
         IN  /\ won1 => /\ matches'[m].played
                        /\ matches'[m].winnerId = reg1
                        /\ MatchCompletedEvent(m, reg1) \in Emitted(resp')
             /\ won2 => /\ matches'[m].played
                        /\ matches'[m].winnerId = reg2
                        /\ MatchCompletedEvent(m, reg2) \in Emitted(resp')
             /\ (~won1 /\ ~won2) =>
                        /\ ~matches'[m].played
                        /\ matches'[m].winnerId = NULL
                        /\ \A e \in Emitted(resp') : e.name # "match-completed"
    ]_vars

\* bestOf=3, sets 1-0, 0-1 played, the third set 1-0 marked played:
\* registration 1 wins 2-1 and match-completed is broadcast
C1_Witness ==
  /\ event.bestOf = 3
  /\ resp.op = "markSetPlayed" /\ resp.err = "" /\ resp.target = <<"m1", 3>>
  /\ MatchCompletedEvent("m1", "r1") \in Emitted(resp)
  /\ matches["m1"].played /\ matches["m1"].winnerId = "r1"
  /\ SetsWon1(sets, "m1") = 2 /\ SetsWon2(sets, "m1") = 1

\* C2: the resolver returns completed=true exactly when one side's count of
\* won sets reaches ceil(bestOf/2), with winnerId the registration slot of a
\* side that reached it, and otherwise completed=false with winnerId null;
\* on a list of at most bestOf sets the two counts never both reach it.
C2_MajorityResolver ==
  LET maj == Majority(rsBestOf)
      n1 == Cardinality({i \in DOMAIN rsPlayedSets :
              rsPlayedSets[i].registration1Score > rsPlayedSets[i].registration2Score})
      n2 == Cardinality({i \in DOMAIN rsPlayedSets :
              rsPlayedSets[i].registration2Score > rsPlayedSets[i].registration1Score})
  IN  /\ rsResult.completed <=> (n1 >= maj \/ n2 >= maj)
      /\ rsResult.completed =>
           \/ n1 >= maj /\ rsResult.winnerId = rsMatch.registration1Id
           \/ n2 >= maj /\ n1 < maj /\ rsResult.winnerId = rsMatch.registration2Id
      /\ ~rsResult.completed => rsResult.winnerId = NULL
      /\ Len(rsPlayedSets) <= rsBestOf => ~(n1 >= maj /\ n2 >= maj)

\* bestOf=7 decided 4-3 for registration 2 by the seventh set
C2_Witness ==
  /\ rsBestOf = 7 /\ Len(rsPlayedSets) = 7
  /\ rsMatch = [registration1Id |-> "r1", registration2Id |-> "r2"]
  /\ Cardinality({i \in DOMAIN rsPlayedSets :
        rsPlayedSets[i].registration2Score > rsPlayedSets[i].registration1Score}) = 4
  /\ Cardinality({i \in DOMAIN rsPlayedSets :
        rsPlayedSets[i].registration1Score > rsPlayedSets[i].registration2Score}) = 3
  /\ rsResult = [winnerId |-> "r2", completed |-> TRUE]

MatchesOf(r) ==
  {m \in DOMAIN matches : matches[m].registration1Id = r \/ matches[m].registration2Id = r}

\* C3: on a groups-format event the standings update has been applied at
\* most once for each match: a registration's won and lost matches together
\* never exceed the number of matches it takes part in.
C3_StandingsOncePerMatch ==
  isGroupsFormat(event.format) =>
    \A r \in RegIds :
      registrations[r].matchesWon + registrations[r].matchesLost
        <= Cardinality(MatchesOf(r))

PlayedNumbers(m) == {s.setNumber : s \in {t \in sets : t.matchId = m /\ t.played}}

\* C4: the set numbers of the played sets of a match are exactly 1..k.
C4_PlayedSetsArePrefix ==
  \A m \in DOMAIN matches : PlayedNumbers(m) = 1..Cardinality(PlayedNumbers(m))

\* set 3 carries a winning score but set 2 is not played: marking set 3
\* was refused, sets 1..1 stay the played prefix
C4_Witness ==
  /\ resp.err = PREVIOUS_SETS_INCOMPLETE
  /\ resp.target = <<"m1", 3>>
  /\ PlayedNumbers("m1") = {1}
  /\ \E s \in sets : /\ setId(s) = <<"m1", 3>>
                     /\ s.registration1Score # s.registration2Score

\* C5: no step turns a played set into an unplayed or a missing one.
C5_SetPlayedMonotonic ==
  [][ \A s \in sets : s.played =>
        \E t \in sets' : setId(t) = setId(s) /\ t.played ]_vars

\* a played match was unmarked by updateMatch and its played sets are
\* still played
C5_Witness ==
  /\ resp.op = "updateMatch" /\ resp.err = ""
  /\ resp.target = <<"m1", 0>>
  /\ event.bestOf = 3
  /\ registrations["r1"].matchesWon = 1
  /\ ~matches["m1"].played /\ matches["m1"].winnerId = NULL
  /\ PlayedNumbers("m1") = {1, 2}

\* C6: markSetPlayed on a set that is already played is answered with
\* SetAlreadyPlayed, changes no stored row and broadcasts nothing.
C6_MarkPlayedTwice ==
  [][ (/\ resp'.op = "markSetPlayed"
       /\ \E s \in sets : setId(s) = resp'.target /\ s.played)
      => /\ resp'.err = SET_ALREADY_PLAYED
         /\ resp'.emitted = <<>>
         /\ UNCHANGED dbVars ]_vars

\* the second markSetPlayed on set 1 of a decided match
C6_Witness ==
  /\ resp.op = "markSetPlayed" /\ resp.err = SET_ALREADY_PLAYED
  /\ resp.target = <<"m1", 1>>
  /\ \E s \in sets : setId(s) = <<"m1", 1>> /\ s.played
  /\ matches["m1"].played

\* C7: editSetScore on a played set, on a set of a played match or with a
\* negative score is refused with SetImmutable, MatchAlreadyPlayed or
\* InvalidScore (one whose condition holds) and stores nothing; with equal
\* non-negative scores and no played flag on an unplayed set of an unplayed
\* match it succeeds and stores the scores.
C7_ScoreEditGates ==
  \A s \in sets : \A sc \in ScorePairs : \A played \in BOOLEAN :
    LET id == setId(s)
        negative == sc[1] < 0 \/ sc[2] < 0
        matchPlayed == matches[s.matchId].played
        expected == (IF negative THEN {INVALID_SCORE} ELSE {})
                    \cup (IF s.played THEN {SET_IMMUTABLE} ELSE {})
                    \cup (IF matchPlayed THEN {MATCH_COMPLETED_NO_EDIT} ELSE {})
    IN  /\ expected # {} =>
             ENABLED (/\ updateSetScore(id, sc[1], sc[2], played, "")
                      /\ resp'.err \in expected
                      /\ resp'.emitted = <<>>
                      /\ UNCHANGED dbVars)
        /\ (expected = {} /\ sc[1] = sc[2] /\ ~played) =>
             ENABLED (/\ updateSetScore(id, sc[1], sc[2], played, "")
                      /\ resp'.err = ""
                      /\ sets' = (sets \ {s}) \cup
                                 {[s EXCEPT !.registration1Score = sc[1],
                                            !.registration2Score = sc[2]]})

\* an edit of the unplayed set 3 (stored as a 1-1 draw by an earlier edit)
\* is refused because the match was decided by sets 1 and 2
C7_Witness ==
  /\ resp.op = "updateSetScore" /\ resp.err = MATCH_COMPLETED_NO_EDIT
  /\ resp.target = <<"m1", 3>>
  /\ matches["m1"].played
  /\ \E s \in sets : /\ setId(s) = <<"m1", 3>> /\ ~s.played
                     /\ s.registration1Score = 1 /\ s.registration2Score = 1

SetNumbersOf(m) == {s.setNumber : s \in {t \in sets : t.matchId = m}}

\* C9: set N > 1 is created only when set N-1 exists and is played, so the
\* set numbers of a match are exactly 1..k with no gap.
C9_SetNumbersContiguous ==
  \A m \in DOMAIN matches :
    /\ SetNumbersOf(m) = 1..Cardinality(SetNumbersOf(m))
    /\ \A s \in sets : (s.matchId = m /\ s.setNumber > 1) =>
         \E t \in sets : t.matchId = m /\ t.setNumber = s.setNumber - 1

\* requests createSet may receive: no number, or a number
SetNumberRequests == {<<FALSE, 0>>} \cup {<<TRUE, n>> : n \in 0..4}

\* C10: the sets of a match have pairwise distinct numbers between 1 and
\* bestOf, so at most bestOf sets; a createSet whose number (given, or
\* count+1) exceeds bestOf or already exists inserts nothing, and on an
\* unplayed match with a date it is answered with MaxSetsReached,
\* respectively DuplicateSetNumber.
C10_SetNumbersBounded ==
  /\ \A s \in sets : \A t \in sets : setId(s) = setId(t) => s = t
  /\ \A s \in sets : s.setNumber \in 1..event.bestOf
  /\ \A m \in DOMAIN matches : Cardinality({s \in sets : s.matchId = m}) <= event.bestOf
  /\ \A m \in DOMAIN matches : \A rq \in SetNumberRequests :
       LET n == IF rq[1] THEN rq[2] ELSE Cardinality({s \in sets : s.matchId = m}) + 1
           tooMany == n > event.bestOf
           exists == n \in SetNumbersOf(m)
           open == ~matches[m].played /\ matches[m].matchDate
       IN  /\ (tooMany \/ exists) =>
                ENABLED (/\ createSet(m, rq[1], rq[2], "")
                         /\ resp'.err # ""
                         /\ resp'.emitted = <<>>
                         /\ UNCHANGED dbVars)
           /\ (open /\ tooMany) =>
                ENABLED (createSet(m, rq[1], rq[2], "") /\ resp'.err = MAX_SETS_REACHED)
           /\ (open /\ ~tooMany /\ exists) =>
                ENABLED (createSet(m, rq[1], rq[2], "") /\ resp'.err = DUPLICATE_SET_NUMBER)

\* a bestOf=3 match holds sets 1, 2 and 3 and the next createSet (default
\* number 4) was answered MaxSetsReached
C10_Witness ==
  /\ resp.op = "createSet" /\ resp.err = MAX_SETS_REACHED
  /\ resp.target = <<"m1", 0>>
  /\ event.bestOf = 3
  /\ SetNumbersOf("m1") = {1, 2, 3}
  /\ ~matches["m1"].played

\* matches that this step completed through markSetPlayed with both slots filled
CompletedByStep(m) ==
  /\ resp'.op = "markSetPlayed" /\ resp'.err = ""
  /\ resp'.target[1] = m
  /\ \E w \in RegIds : MatchCompletedEvent(m, w) \in Emitted(resp')
  /\ matches[m].registration1Id # NULL /\ matches[m].registration2Id # NULL

priorRegistration ==
  [matchesWon |-> 1, matchesLost |-> 2, setsWon |-> 3, setsLost |-> 4,
   points |-> 5]

InitStandings ==
  /\ \E fmt \in {"groups", "groups-knockout"}, ppl \in {0, 1} :
       event = [mkEvent(fmt, 3) EXCEPT !.pointsPerLoss = ppl]
  /\ \E a \in RegIds \cup {NULL}, b \in RegIds \cup {NULL} :
       /\ (a = NULL \/ b = NULL \/ a # b)
       /\ matches = [m \in {"m1"} |-> mkMatch("g1", a, b, TRUE, NULL, 0, NULL, 0)]
  /\ groups = [g \in GroupIds |-> [completed |-> FALSE]]
  /\ registrations \in [RegIds -> {newRegistration, priorRegistration}]
  /\ sets = {}
  /\ resp = NoResp
  /\ rsIdle

\* one more played set in the list handed to the updater
StandingsAddSet ==
  /\ resp.op = "none"
  /\ Len(rsPlayedSets) < MaxPlayed
  /\ \E r \in RsSetResults : rsPlayedSets' = Append(rsPlayedSets, r)
  /\ UNCHANGED <<rsBestOf, rsMatch, rsResult, event, groups, registrations, matches,
                 sets, resp, session, procs>>

\* handleGroupsMatchCompletion(match, event, winnerId, playedSets), the
\* winner being an occupant of the match as markSetPlayed passes it
ApplyGroupsCompletion ==
  /\ resp.op = "none"
  /\ \E winnerId \in {matches["m1"].registration1Id, matches["m1"].registration2Id} \ {NULL} :
       /\ registrations' = handleGroupsMatchCompletion(registrations, matches["m1"], event,
                                                       winnerId, rsPlayedSets)
       /\ rsResult' = [winnerId |-> winnerId, completed |-> TRUE]
  /\ resp' = Replied("handleGroupsMatchCompletion", <<"m1", 0>>, <<>>)
  /\ UNCHANGED <<rsPlayedSets, rsBestOf, rsMatch, event, groups, matches, sets,
                 session, procs>>

NextStandings == StandingsAddSet \/ ApplyGroupsCompletion

SpecStandings == InitStandings /\ [][NextStandings]_vars

\* sets of the list q won by side 1 / by side 2
ListWon1(q) ==
  Cardinality({i \in DOMAIN q : q[i].registration1Score > q[i].registration2Score})

ListWon2(q) ==
  Cardinality({i \in DOMAIN q : q[i].registration2Score > q[i].registration1Score})

\* the registration row old after one match with the given outcome was added
Plus(old, won, points, setsWon, setsLost) ==
  [matchesWon |-> old.matchesWon + (IF won THEN 1 ELSE 0),
   matchesLost |-> old.matchesLost + (IF won THEN 0 ELSE 1),
   setsWon |-> old.setsWon + setsWon,
   setsLost |-> old.setsLost + setsLost,
   points |-> old.points + points]

\* C12: when the standings updater runs for a groups match with both slots
\* filled and winner W, W gets matchesWon+1 and points+pointsPerWin, the other
\* registration gets matchesLost+1 and points+pointsPerLoss, each gets
\* setsWon and setsLost raised by the played sets of the match it won and
\* lost, all added to the stored counters, and no other registration changes;
\* with an empty slot no registration changes.
C12_GroupsStandingsDelta ==
  [][ resp'.op = "handleGroupsMatchCompletion" =>
        LET a == matches["m1"].registration1Id
            b == matches["m1"].registration2Id
            w == rsResult'.winnerId
            won1 == ListWon1(rsPlayedSets)
            won2 == ListWon2(rsPlayedSets)
        IN  IF a # NULL /\ b # NULL
            THEN /\ registrations'[a] =
                      Plus(registrations[a], w = a,
                           IF w = a THEN event.pointsPerWin ELSE event.pointsPerLoss,
                           won1, won2)
                 /\ registrations'[b] =
                      Plus(registrations[b], w = b,
                           IF w = b THEN event.pointsPerWin ELSE event.pointsPerLoss,
                           won2, won1)
                 /\ \A r \in RegIds \ {a, b} : registrations'[r] = registrations[r]
            ELSE registrations' = registrations ]_vars

\* a 2-1 win of r1 over r2 added to the counters both carried from earlier
\* matches
C12_Witness ==
  /\ resp.op = "handleGroupsMatchCompletion"
  /\ matches["m1"].registration1Id = "r1" /\ matches["m1"].registration2Id = "r2"
  /\ event.pointsPerLoss = 0
  /\ ListWon1(rsPlayedSets) = 2 /\ ListWon2(rsPlayedSets) = 1
  /\ registrations["r1"] = [matchesWon |-> 2, matchesLost |-> 2, setsWon |-> 5,
                            setsLost |-> 5, points |-> 8]
  /\ registrations["r2"] = [matchesWon |-> 1, matchesLost |-> 3, setsWon |-> 4,
                            setsLost |-> 6, points |-> 5]
  /\ registrations["r3"] = newRegistration

(***************************************************************************)
(* The bracket router on its own: a bracket of three matches that feeds    *)
(* forward, the first match either waiting or just stored as played with   *)
(* its winner, and one call of a routing function of match-completion.ts.  *)
(***************************************************************************)
\* routeLoserToMatch with the two slots exchanged
routeLoserToMatch_otherSlot(M, loserTo, loserToSlot, loserId) ==
  IF loserTo \notin DOMAIN M THEN M
  ELSE IF loserToSlot = 1 THEN [M EXCEPT ![loserTo].registration2Id = loserId]
       ELSE [M EXCEPT ![loserTo].registration1Id = loserId]

\* update(matches).set({[updateField]: loserId}).where(eq(matches.id, match.loserTo))
routeLoserToMatch(M, loserTo, loserToSlot, loserId) ==
  IF loserTo \notin DOMAIN M THEN M
  ELSE IF loserToSlot = 1 THEN [M EXCEPT ![loserTo].registration1Id = loserId]
       ELSE [M EXCEPT ![loserTo].registration2Id = loserId]

\* checkAndAutoAdvanceBye without the recursive call on the winnerTo match
checkAndAutoAdvanceBye_once(M, matchId, calls) ==
  LET made == Append(calls, matchId)
  IN  IF matchId \notin DOMAIN M THEN [matches |-> M, calls |-> made]
      ELSE
      LET match == M[matchId]
          hasReg1 == match.registration1Id # NULL
          hasReg2 == match.registration2Id # NULL
          soloRegistrationId == IF hasReg1 THEN match.registration1Id
                                ELSE match.registration2Id
          hasPendingFeeder == \E m \in DOMAIN M :
                                 /\ ~M[m].played
                                 /\ (M[m].winnerTo = matchId \/ M[m].loserTo = matchId)
          M1 == [M EXCEPT ![matchId].winnerId = soloRegistrationId,
                          ![matchId].played = TRUE]
      IN  IF match.played THEN [matches |-> M, calls |-> made]
          ELSE IF hasReg1 = hasReg2 THEN [matches |-> M, calls |-> made]
          ELSE IF hasPendingFeeder THEN [matches |-> M, calls |-> made]
          ELSE IF match.winnerTo # NULL /\ match.winnerToSlot # 0
               THEN [matches |-> advanceWinnerToNextMatch(M1, match.winnerTo,
                                   match.winnerToSlot, soloRegistrationId),
                     calls |-> made]
               ELSE [matches |-> M1, calls |-> made]

RECURSIVE checkAndAutoAdvanceBye_noMark(_, _, _)
\* checkAndAutoAdvanceBye that advances the occupant without storing the
\* match as played
checkAndAutoAdvanceBye_noMark(M, matchId, calls) ==
  LET made == Append(calls, matchId)
  IN  IF matchId \notin DOMAIN M THEN [matches |-> M, calls |-> made]
      ELSE
      LET match == M[matchId]
          hasReg1 == match.registration1Id # NULL
          hasReg2 == match.registration2Id # NULL
          soloRegistrationId == IF hasReg1 THEN match.registration1Id
                                ELSE match.registration2Id
          hasPendingFeeder == \E m \in DOMAIN M :
                                 /\ ~M[m].played
                                 /\ (M[m].winnerTo = matchId \/ M[m].loserTo = matchId)
      IN  IF match.played THEN [matches |-> M, calls |-> made]
          ELSE IF hasReg1 = hasReg2 THEN [matches |-> M, calls |-> made]
          ELSE IF hasPendingFeeder THEN [matches |-> M, calls |-> made]
          ELSE IF match.winnerTo # NULL /\ match.winnerToSlot # 0
               THEN checkAndAutoAdvanceBye_noMark(
                      advanceWinnerToNextMatch(M, match.winnerTo, match.winnerToSlot,
                                               soloRegistrationId),
                      match.winnerTo, made)
               ELSE [matches |-> M, calls |-> made]

RECURSIVE checkAndAutoAdvanceBye_ignoreFeeders(_, _, _)
\* checkAndAutoAdvanceBye without the scan for an unplayed match that feeds
\* the match
checkAndAutoAdvanceBye_ignoreFeeders(M, matchId, calls) ==
  LET made == Append(calls, matchId)
  IN  IF matchId \notin DOMAIN M THEN [matches |-> M, calls |-> made]
      ELSE
      LET match == M[matchId]
          hasReg1 == match.registration1Id # NULL
          hasReg2 == match.registration2Id # NULL
          soloRegistrationId == IF hasReg1 THEN match.registration1Id
                                ELSE match.registration2Id
          M1 == [M EXCEPT ![matchId].winnerId = soloRegistrationId,
                          ![matchId].played = TRUE]
      IN  IF match.played THEN [matches |-> M, calls |-> made]
          ELSE IF hasReg1 = hasReg2 THEN [matches |-> M, calls |-> made]
          ELSE IF match.winnerTo # NULL /\ match.winnerToSlot # 0
               THEN checkAndAutoAdvanceBye_ignoreFeeders(
                      advanceWinnerToNextMatch(M1, match.winnerTo, match.winnerToSlot,
                                               soloRegistrationId),
                      match.winnerTo, made)
               ELSE [matches |-> M1, calls |-> made]

RECURSIVE checkAndAutoAdvanceBye(_, _, _)
\* the matches table after the call, and the match ids the call and its
\* recursive calls were made with, in order (calls: those made before)
checkAndAutoAdvanceBye(M, matchId, calls) ==
  LET made == Append(calls, matchId)
  IN  IF matchId \notin DOMAIN M THEN [matches |-> M, calls |-> made]
      ELSE
      LET match == M[matchId]
          hasReg1 == match.registration1Id # NULL
          hasReg2 == match.registration2Id # NULL
          soloRegistrationId == IF hasReg1 THEN match.registration1Id
                                ELSE match.registration2Id
          hasPendingFeeder == \E m \in DOMAIN M :
                                 /\ ~M[m].played
                                 /\ (M[m].winnerTo = matchId \/ M[m].loserTo = matchId)
          M1 == [M EXCEPT ![matchId].winnerId = soloRegistrationId,
                          ![matchId].played = TRUE]
      IN  IF match.played THEN [matches |-> M, calls |-> made]
          ELSE IF hasReg1 = hasReg2 THEN [matches |-> M, calls |-> made]
          ELSE IF hasPendingFeeder THEN [matches |-> M, calls |-> made]
          ELSE IF match.winnerTo # NULL /\ match.winnerToSlot # 0
               THEN checkAndAutoAdvanceBye(
                      advanceWinnerToNextMatch(M1, match.winnerTo, match.winnerToSlot,
                                               soloRegistrationId),
                      match.winnerTo, made)
               ELSE [matches |-> M1, calls |-> made]

handleDoubleEliminationMatchCompletion(M, match, winnerId) ==
  LET M1 == IF match.winnerTo # NULL /\ match.winnerToSlot # 0 /\ winnerId # NULL
            THEN advanceWinnerToNextMatch(M, match.winnerTo, match.winnerToSlot, winnerId)
            ELSE M
      loserId == IF winnerId = match.registration1Id THEN match.registration2Id
                 ELSE match.registration1Id
      routed == loserId # NULL /\ match.loserTo # NULL /\ match.loserToSlot # 0
      M2 == IF routed
            THEN checkAndAutoAdvanceBye(
                   routeLoserToMatch(M1, match.loserTo, match.loserToSlot, loserId),
                   match.loserTo, <<>>).matches
            ELSE M1
  IN  IF match.winnerTo # NULL
      THEN checkAndAutoAdvanceBye(M2, match.winnerTo, <<>>).matches
      ELSE M2

BracketIds == {"m1", "m2", "m3"}

\* the matches a match may feed: those after it
Later(m) == IF m = "m1" THEN {"m2", "m3"} ELSE IF m = "m2" THEN {"m3"} ELSE {}

\* occupants a match may have before any result reaches it
Occupants(m) ==
  IF m = "m1" THEN {<<"r1", "r2">>, <<"r1", NULL>>, <<NULL, "r2">>, <<NULL, NULL>>}
  ELSE {<<NULL, NULL>>, <<"r3", NULL>>, <<NULL, "r3">>}

\* the feeders of slot `slot` of match t: pairs of a match and "winner" or "loser"
FeedersOf(B, t, slot) ==
  {p \in (DOMAIN B) \X {"winner", "loser"} :
     \/ p[2] = "winner" /\ B[p[1]].winnerTo = t /\ B[p[1]].winnerToSlot = slot
     \/ p[2] = "loser" /\ B[p[1]].loserTo = t /\ B[p[1]].loserToSlot = slot}

slotOf(match, slot) ==
  IF slot = 1 THEN match.registration1Id ELSE match.registration2Id

\* no slot is fed twice and no fed slot is seeded
WellFormedBracket(B) ==
  \A t \in DOMAIN B : \A slot \in {1, 2} :
    /\ Cardinality(FeedersOf(B, t, slot)) <= 1
    /\ FeedersOf(B, t, slot) # {} => slotOf(B[t], slot) = NULL

\* the rows a match of the bracket may start as; only m1 routes a loser and
\* only m1 may already be stored as played
BracketRows(m) ==
  {[mkMatch(NULL, occ[1], occ[2], TRUE, wTo, wSlot, lTo, lSlot)
      EXCEPT !.played = w # NULL, !.winnerId = w] :
     occ \in Occupants(m),
     wTo \in Later(m) \cup {NULL}, wSlot \in 0..2,
     lTo \in (IF m = "m1" THEN Later(m) ELSE {}) \cup {NULL},
     lSlot \in (IF m = "m1" THEN 0..2 ELSE {0}),
     w \in (IF m = "m1" THEN {"r1", "r2"} ELSE {}) \cup {NULL}}

InitBracket ==
  /\ event = mkEvent("double-elimination", 1)
  /\ \E a \in BracketRows("m1"), b \in BracketRows("m2"), c \in BracketRows("m3") :
       /\ a.winnerId \in {a.registration1Id, a.registration2Id, NULL}
       /\ matches = [m \in BracketIds |-> IF m = "m1" THEN a ELSE IF m = "m2" THEN b ELSE c]
       /\ WellFormedBracket(matches)
  /\ groups = [g \in GroupIds |-> [completed |-> FALSE]]
  /\ registrations = [r \in RegIds |-> newRegistration]
  /\ sets = {}
  /\ resp = NoResp
  /\ rsIdle

\* handleSingleEliminationMatchCompletion(match, winnerId) for the match
\* that was just stored as played
ApplySingleElimination ==
  /\ resp.op = "none"
  /\ matches["m1"].played
  /\ matches' = handleSingleEliminationMatchCompletion(matches, matches["m1"],
                                                       matches["m1"].winnerId)
  /\ resp' = Replied("handleSingleEliminationMatchCompletion", <<"m1", 0>>, <<>>)
  /\ UNCHANGED <<event, groups, registrations, sets, rsPlayedSets, rsBestOf, rsMatch,
                 rsResult, session, procs>>

\* handleDoubleEliminationMatchCompletion(match, winnerId) for the match
\* that was just stored as played
ApplyDoubleElimination ==
  /\ resp.op = "none"
  /\ matches["m1"].played
  /\ matches' = handleDoubleEliminationMatchCompletion(matches, matches["m1"],
                                                       matches["m1"].winnerId)
  /\ resp' = Replied("handleDoubleEliminationMatchCompletion", <<"m1", 0>>, <<>>)
  /\ UNCHANGED <<event, groups, registrations, sets, rsPlayedSets, rsBestOf, rsMatch,
                 rsResult, session, procs>>

\* checkAndAutoAdvanceBye(matchId, eventId)
CheckBye ==
  /\ resp.op = "none"
  /\ \E m \in BracketIds :
       /\ matches' = checkAndAutoAdvanceBye(matches, m, <<>>).matches
       /\ resp' = Replied("checkAndAutoAdvanceBye", <<m, 0>>, <<>>)
  /\ UNCHANGED <<event, groups, registrations, sets, rsPlayedSets, rsBestOf, rsMatch,
                 rsResult, session, procs>>

NextBracket == ApplySingleElimination \/ ApplyDoubleElimination \/ CheckBye

SpecBracket == InitBracket /\ [][NextBracket]_vars

\* C13: advancing the winner of a match writes the winner id into
\* registration1Id of the winnerTo match when winnerToSlot is 1 and into
\* registration2Id when it is 2, and changes neither the other slot, the
\* played flag or the winnerId of that match nor any other match; with
\* winnerTo or winnerToSlot unset no match is modified.
C13_AdvanceWinnerFrame ==
  [][ resp'.op = "handleSingleEliminationMatchCompletion" =>
        LET match == matches[resp'.target[1]]
            t == match.winnerTo
        IN  IF t # NULL /\ match.winnerToSlot \in {1, 2}
            THEN /\ slotOf(matches'[t], match.winnerToSlot) = match.winnerId
                 /\ slotOf(matches'[t], 3 - match.winnerToSlot)
                      = slotOf(matches[t], 3 - match.winnerToSlot)
                 /\ matches'[t].played = matches[t].played
                 /\ matches'[t].winnerId = matches[t].winnerId
                 /\ \A f \in {"groupId", "matchDate", "winnerTo", "winnerToSlot",
                              "loserTo", "loserToSlot"} : matches'[t][f] = matches[t][f]
                 /\ \A m \in DOMAIN matches \ {t} : matches'[m] = matches[m]
            ELSE matches' = matches ]_vars

\* r2 won m1 and was written into the second slot of m3, whose first slot
\* keeps r3
C13_Witness ==
  /\ resp.op = "handleSingleEliminationMatchCompletion"
  /\ DOMAIN matches = BracketIds
  /\ matches["m1"].winnerId = "r2"
  /\ matches["m1"].winnerTo = "m3" /\ matches["m1"].winnerToSlot = 2
  /\ matches["m3"].registration1Id = "r3" /\ matches["m3"].registration2Id = "r2"
  /\ ~matches["m3"].played

\* the slots <<match, slot>> that hold registration x after the step and did
\* not hold it before
NewlyHolding(x) ==
  {p \in (DOMAIN matches) \X {1, 2} :
     slotOf(matches'[p[1]], p[2]) = x /\ slotOf(matches[p[1]], p[2]) # x}

\* the slots that registration x reached as the winner of a match the step
\* resolved as a BYE
ByeAdvanced(x) ==
  {p \in (DOMAIN matches) \X {1, 2} :
     \E m \in DOMAIN matches :
       /\ ~matches[m].played /\ matches'[m].played /\ matches'[m].winnerId = x
       /\ matches[m].winnerTo = p[1] /\ matches[m].winnerToSlot = p[2]}

SoleOccupant(match) ==
  IF match.registration1Id # NULL THEN match.registration1Id ELSE match.registration2Id

\* match m of table B is a BYE to resolve: unplayed, exactly one slot filled,
\* and no unplayed match names it as winnerTo or loserTo
IsBye(B, m) ==
  /\ ~B[m].played
  /\ (B[m].registration1Id = NULL) # (B[m].registration2Id = NULL)
  /\ ~\E f \in DOMAIN B : ~B[f].played /\ (B[f].winnerTo = m \/ B[f].loserTo = m)

\* table B after BYE m was stored as played and its occupant was written
\* into the slot it advances to, if any
ByeResolved(B, m) ==
  LET solo == SoleOccupant(B[m])
      B1 == [B EXCEPT ![m].played = TRUE, ![m].winnerId = solo]
      t == B[m].winnerTo
  IN  IF t = NULL \/ B[m].winnerToSlot \notin {1, 2} THEN B1
      ELSE IF B[m].winnerToSlot = 1 THEN [B1 EXCEPT ![t].registration1Id = solo]
      ELSE [B1 EXCEPT ![t].registration2Id = solo]

\* C15: checkAndAutoAdvanceBye on an unplayed match with exactly one filled
\* slot that no unplayed match feeds stores it as played with the sole
\* occupant as winnerId, writes the occupant into slot winnerToSlot of match
\* winnerTo when both are set, and then treats the winnerTo match the same
\* way: if that match is now such a BYE it is resolved too, and if not the
\* call changes nothing more.
C15_ByeResolves ==
  [][ (resp'.op = "checkAndAutoAdvanceBye" /\ IsBye(matches, resp'.target[1])) =>
        LET m == resp'.target[1]
            solo == SoleOccupant(matches[m])
            t == matches[m].winnerTo
            mid == ByeResolved(matches, m)
        IN  /\ matches'[m].played /\ matches'[m].winnerId = solo
            /\ matches'[m].registration1Id = matches[m].registration1Id
            /\ matches'[m].registration2Id = matches[m].registration2Id
            /\ IF t # NULL /\ matches[m].winnerToSlot \in {1, 2}
               THEN /\ slotOf(matches'[t], matches[m].winnerToSlot) = solo
                    /\ IF IsBye(mid, t)
                       THEN /\ matches'[t].played
                            /\ matches'[t].winnerId = SoleOccupant(mid[t])
                       ELSE matches' = mid
               ELSE matches' = mid ]_vars

\* the spec's scenario 4 once more down the bracket: r1 alone in m1 went
\* through the empty m2 into the second slot of m3, where r3 waits
C15_Witness ==
  /\ resp.op = "checkAndAutoAdvanceBye" /\ resp.target = <<"m1", 0>>
  /\ DOMAIN matches = BracketIds
  /\ matches["m1"].registration1Id = "r1" /\ matches["m1"].registration2Id = NULL
  /\ matches["m1"].played /\ matches["m1"].winnerId = "r1"
  /\ matches["m2"].registration1Id = "r1" /\ matches["m2"].registration2Id = NULL
  /\ matches["m2"].played /\ matches["m2"].winnerId = "r1"
  /\ matches["m3"].registration1Id = "r3" /\ matches["m3"].registration2Id = "r1"
  /\ ~matches["m3"].played

\* the match ids of a sequence, as a set
Visited(calls) == {calls[i] : i \in DOMAIN calls}

\* C16: a call of checkAndAutoAdvanceBye returns, visits no match twice,
\* makes no more recursive calls than the number K of matches it stores as
\* played, stores as played every match it visits except possibly the last,
\* and leaves no visited match behind as a BYE to resolve: a chain of K
\* consecutive BYE matches is resolved by the one call on its first match.
C16_ByeCascadeBounded ==
  [][ resp'.op = "checkAndAutoAdvanceBye" =>
        LET calls == checkAndAutoAdvanceBye(matches, resp'.target[1], <<>>).calls
            K == Cardinality({m \in DOMAIN matches : ~matches[m].played /\ matches'[m].played})
        IN  /\ Cardinality(Visited(calls)) = Len(calls)
            /\ Len(calls) - 1 <= K
            /\ K <= Len(calls)
            /\ \A i \in 1..(Len(calls) - 1) :
                 ~matches[calls[i]].played /\ matches'[calls[i]].played
            /\ \A m \in DOMAIN matches :
                 (~matches[m].played /\ matches'[m].played) => m \in Visited(calls)
            /\ \A m \in Visited(calls) : ~IsBye(matches', m) ]_vars

\* a chain of three BYE matches: r2 alone in m1, m2 and m3 empty and fed
\* only by the match before; one call on m1 stored all three as played
C16_Witness ==
  /\ resp.op = "checkAndAutoAdvanceBye" /\ resp.target = <<"m1", 0>>
  /\ DOMAIN matches = BracketIds
  /\ matches["m1"].registration1Id = NULL /\ matches["m1"].registration2Id = "r2"
  /\ matches["m1"].winnerTo = "m2" /\ matches["m2"].winnerTo = "m3"
  /\ \A m \in BracketIds : matches[m].played /\ matches[m].winnerId = "r2"

\* an event of five matches, played as P says
FiveMatches(P) ==
  [m \in DOMAIN P |-> [mkMatch(NULL, "r1", "r2", TRUE, NULL, 0, NULL, 0)
                         EXCEPT !.played = P[m]]]

\* an event without matches
NoMatches == [m \in {} |-> mkMatch(NULL, NULL, NULL, FALSE, NULL, 0, NULL, 0)]

\* C17: after a match completes through markSetPlayed the event's completed
\* flag is true exactly when every match of the event is played; the
\* recomputation gives false for five matches of which four are played, true
\* when the fifth is played too, and false for an event without matches.
C17_EventCompletedFlag ==
  /\ (/\ resp.op = "markSetPlayed"
      /\ \E ev \in Emitted(resp) : ev.name = "match-completed")
     => (event.completed <=> \A m \in DOMAIN matches : matches[m].played)
  /\ \A P \in [{"e1", "e2", "e3", "e4", "e5"} -> BOOLEAN] :
       updateEventCompletedStatus(event, FiveMatches(P)).completed
         <=> (\A m \in DOMAIN P : P[m])
  /\ ~updateEventCompletedStatus([event EXCEPT !.completed = TRUE], NoMatches).completed

\* the second of the two matches of the event has just completed and the
\* event is stored as completed
C17_Witness ==
  /\ resp.op = "markSetPlayed" /\ resp.target[1] = "m2"
  /\ \E ev \in Emitted(resp) : ev.name = "match-completed"
  /\ DOMAIN matches = {"m1", "m2"}
  /\ matches["m1"].played /\ matches["m2"].played
  /\ event.completed

\* every set of match m is played
AllSetsPlayed(m) == \A s \in sets : s.matchId = m => s.played

\* the error validateMatchCompletion is expected to give for match m, "" for none
CompletionRefusal(m) ==
  IF ~AllSetsPlayed(m) THEN UNPLAYED_SETS
  ELSE IF SetsWon1(sets, m) = SetsWon2(sets, m) THEN TIED_SERIES
  ELSE IF /\ SetsWon1(sets, m) < Majority(event.bestOf)
          /\ SetsWon2(sets, m) < Majority(event.bestOf)
       THEN NO_MAJORITY
  ELSE ""

\* C18: updateMatch with played=true on an unplayed match is accepted exactly
\* when every set of the match is played, the two sides' counts of won sets
\* differ and one of them is at least ceil(bestOf/2); it then stores played=true
\* with winnerId the registration of the side that won more sets and changes
\* no other record. Otherwise it is refused with UnplayedSets, TiedSeries or
\* NoMajority (the first that applies), broadcasts nothing and stores nothing.
C18_DirectCompletionGate ==
  \A m \in DOMAIN matches :
    ~matches[m].played =>
      LET d == "undefined"
          w1 == SetsWon1(sets, m)
          w2 == SetsWon2(sets, m)
          refusal == CompletionRefusal(m)
          winner == IF w1 > w2 THEN matches[m].registration1Id
                    ELSE matches[m].registration2Id
      IN  /\ refusal = "" =>
               ENABLED (/\ updateMatch(m, "true", d, "")
                        /\ resp'.err = ""
                        /\ matches'[m].played
                        /\ matches'[m].winnerId = winner
                        /\ \A o \in DOMAIN matches : o # m => matches'[o] = matches[o]
                        /\ UNCHANGED <<event, groups, registrations, sets>>)
          /\ refusal # "" =>
               ENABLED (/\ updateMatch(m, "true", d, "")
                        /\ resp'.err = refusal
                        /\ resp'.emitted = <<>>
                        /\ UNCHANGED dbVars)

\* a bestOf=3 match whose sets stand 1-2 was marked played through
\* updateMatch: registration 2 is stored as the winner
C18_Witness ==
  /\ event.bestOf = 3
  /\ resp.op = "updateMatch" /\ resp.err = "" /\ resp.target = <<"m1", 0>>
  /\ MatchCompletedEvent("m1", "r2") \in Emitted(resp)
  /\ matches["m1"].played /\ matches["m1"].winnerId = "r2"
  /\ AllSetsPlayed("m1")
  /\ SetsWon1(sets, "m1") = 1 /\ SetsWon2(sets, "m1") = 2

\* this step is an accepted updateSetScore that turned the unplayed set id
\* into a played one
PlayedByEdit(id) ==
  /\ resp'.op = "updateSetScore" /\ resp'.err = "" /\ resp'.target = id
  /\ \E s \in sets : setId(s) = id /\ ~s.played
  /\ \E t \in sets' : setId(t) = id /\ t.played

\* C19: when an accepted editSetScore with played=true turns an unplayed set
\* of an unplayed match into a played one and a registration of the match
\* then has at least ceil(bestOf/2) won sets, the step stores the match as
\* played with that registration as winner and broadcasts match-completed
\* for it, as markSetPlayed does.
C19_EditCompletesMatch ==
  [][ \A s \in sets :
        (PlayedByEdit(setId(s)) /\ ~matches[s.matchId].played) =>
          LET m == s.matchId
              maj == Majority(event.bestOf)
              reg1 == matches[m].registration1Id
              reg2 == matches[m].registration2Id
          IN  /\ (SetsWon1(sets', m) >= maj /\ reg1 # NULL) =>
                   /\ matches'[m].played
                   /\ matches'[m].winnerId = reg1
                   /\ MatchCompletedEvent(m, reg1) \in Emitted(resp')
              /\ (SetsWon2(sets', m) >= maj /\ reg2 # NULL) =>
                   /\ matches'[m].played
                   /\ matches'[m].winnerId = reg2
                   /\ MatchCompletedEvent(m, reg2) \in Emitted(resp')
    ]_vars

\* the messages of the validation rules of the four write handlers
ValidationRefusals ==
  {SET_IMMUTABLE, MATCH_COMPLETED_NO_EDIT, MATCH_ALREADY_PLAYED, SET_ALREADY_PLAYED,
   INVALID_SCORE, DRAW_NOT_ALLOWED, SCORE_TOO_LOW, PREVIOUS_SETS_INCOMPLETE,
   PREVIOUS_SETS_NOT_PLAYED, MAX_SETS_REACHED, DUPLICATE_SET_NUMBER,
   MATCH_DATE_REQUIRED, UNPLAYED_SETS, TIED_SERIES, NO_MAJORITY}

\* C20: a step of editSetScore, markSetPlayed, createSet or updateMatch that
\* answers the requester with the error of a validation rule broadcasts
\* nothing to the match room and leaves every stored record as it was.
C20_RefusalsChangeNothing ==
  [][ (/\ resp'.op \in {"updateSetScore", "markSetPlayed", "createSet", "updateMatch"}
       /\ resp'.err \in ValidationRefusals)
      => /\ resp'.emitted = <<>>
         /\ UNCHANGED dbVars ]_vars

\* a bestOf=3 match with one played set, 1-0: updateMatch with played=true
\* was refused with NoMajority and the match is still unplayed
C20_Witness ==
  /\ event.bestOf = 3
  /\ resp.op = "updateMatch" /\ resp.err = NO_MAJORITY /\ resp.target = <<"m1", 0>>
  /\ resp.emitted = <<>>
  /\ ~matches["m1"].played /\ matches["m1"].winnerId = NULL
  /\ AllSetsPlayed("m1")
  /\ SetsWon1(sets, "m1") = 1 /\ SetsWon2(sets, "m1") = 0

(***************************************************************************)
(* Authorization of writes (utils/authorization.ts): one connected user    *)
(* sends requests; every handler asks checkEventUpdateAuthorization with   *)
(* the user data of the socket and the organization of the match's event.  *)
(***************************************************************************)
Orgs == {"o1", "o2"}
Roles == {"admin", "super_admin", "owner", "coach", "player", "member"}

\* UserData of a socket: the system-admin flag, the active organization of
\* the session and the role held in each organization (NULL: not a member);
\* in the second organization a user is an admin or not a member
Users ==
  {[isAdmin |-> a, activeOrganizationId |-> act,
    organizationMemberships |-> [o \in Orgs |-> IF o = "o1" THEN r1 ELSE r2]]
   : a \in BOOLEAN, act \in Orgs \cup {NULL}, r1 \in Roles \cup {NULL},
     r2 \in {"admin", NULL}}

\* events.organizationId of the event worked on (nullable)
EventOrgs == {NULL, "o1"}

buildOrganizationContext(userData) ==
  LET memberships == {o \in Orgs : userData.organizationMemberships[o] # NULL}
      activeOrganizationId ==
        IF userData.activeOrganizationId = NULL /\ Cardinality(memberships) = 1
        THEN CHOOSE o \in memberships : TRUE
        ELSE userData.activeOrganizationId
      found == activeOrganizationId # NULL /\ activeOrganizationId \in memberships
      role == IF found THEN userData.organizationMemberships[activeOrganizationId]
              ELSE NULL
  IN  [isSystemAdmin |-> userData.isAdmin,
       organization |-> IF found THEN activeOrganizationId ELSE NULL,
       activeOrganizationId |-> activeOrganizationId,
       role |-> role,
       isAdmin |-> role \in {"admin", "super_admin"},
       isOwner |-> role = "owner",
       isCoach |-> role = "coach",
       isPlayer |-> role = "player",
       isMember |-> role = "member"]

\* checkEventUpdateAuthorization without the comparison of organizations
checkEventUpdateAuthorization_anyOrg(userData, ev) ==
  LET context == buildOrganizationContext(userData)
  IN  IF context.isSystemAdmin THEN ""
      ELSE IF \/ (~context.isAdmin /\ ~context.isOwner /\ ~context.isCoach)
              \/ context.organization = NULL
      THEN NOT_ORG_ROLE
      ELSE ""

\* the error of the refusal, "" when authorized
checkEventUpdateAuthorization(userData, ev) ==
  LET context == buildOrganizationContext(userData)
  IN  IF context.isSystemAdmin THEN ""
      ELSE IF \/ (~context.isAdmin /\ ~context.isOwner /\ ~context.isCoach)
              \/ context.organization = NULL
      THEN NOT_ORG_ROLE
      ELSE IF ev.organizationId # context.organization THEN NOT_OWN_ORG
      ELSE ""

\* authCheck of a handler run for the connected user
SessionAuth ==
  checkEventUpdateAuthorization(session.userData,
                                [organizationId |-> session.organizationId])

\* a store a running event can be in: the only match of a bestOf=1 group
\* has its set, scored 1-0 and not yet played
InitSession ==
  /\ event = ScenarioGroups1.event
  /\ matches = [m \in {"m1"} |-> ScenarioGroups1.matches[m]]
  /\ groups = [g \in GroupIds |-> [completed |-> FALSE]]
  /\ registrations = [r \in RegIds |-> newRegistration]
  /\ sets = {[newSet("m1", 1) EXCEPT !.registration1Score = 1]}
  /\ resp = NoResp
  /\ rsPlayedSets = <<>>
  /\ rsBestOf = 1
  /\ rsMatch = [registration1Id |-> NULL, registration2Id |-> NULL]
  /\ rsResult = [winnerId |-> NULL, completed |-> FALSE]
  /\ session \in [userData : Users, organizationId : EventOrgs]
  /\ procs = <<>>

SessionCreateSet ==
  /\ \E matchId \in MatchIds, rq \in SetNumberRequests :
       createSet(matchId, rq[1], rq[2], SessionAuth)
  /\ UNCHANGED rsVars

SessionUpdateSetScore ==
  /\ \E id \in SetIdInputs, sc \in ScorePairs, played \in BOOLEAN :
       updateSetScore(id, sc[1], sc[2], played, SessionAuth)
  /\ UNCHANGED rsVars

SessionMarkSetPlayed ==
  /\ \E id \in SetIdInputs : markSetPlayed(id, SessionAuth)
  /\ UNCHANGED rsVars

SessionUpdateMatch ==
  /\ \E matchId \in MatchIds, played \in PlayedInputs, matchDate \in MatchDateInputs :
       updateMatch(matchId, played, matchDate, SessionAuth)
  /\ UNCHANGED rsVars

NextSession ==
  SessionCreateSet \/ SessionUpdateSetScore \/ SessionMarkSetPlayed \/ SessionUpdateMatch

SpecSession == InitSession /\ [][NextSession]_vars

\* the users the write rule names: a system admin, or an admin (super_admin
\* included), owner or coach of the organization of the event
MayWrite(userData, organizationId) ==
  \/ userData.isAdmin
  \/ /\ organizationId # NULL
     /\ userData.organizationMemberships[organizationId]
          \in {"admin", "super_admin", "owner", "coach"}

\* C21: every request of a user who is neither a system admin nor an admin,
\* owner or coach of the organization of the event is answered with an error,
\* broadcasts nothing to the match room and leaves every stored record as it
\* was.
C21_UnauthorizedWritesRefused ==
  [][ ~MayWrite(session.userData, session.organizationId)
      => /\ resp'.op # "none"
         /\ resp'.err # ""
         /\ resp'.emitted = <<>>
         /\ UNCHANGED dbVars ]_vars

\* a player of the event's organization who is an admin of another one, with
\* that other organization active, asked to mark the ready set of m1 played
C21_Witness ==
  /\ session.organizationId = "o1"
  /\ ~session.userData.isAdmin
  /\ session.userData.activeOrganizationId = "o2"
  /\ session.userData.organizationMemberships = [o \in Orgs |-> IF o = "o1" THEN "player" ELSE "admin"]
  /\ resp.op = "markSetPlayed" /\ resp.target = <<"m1", 1>>
  /\ resp.err = NOT_OWN_ORG /\ resp.emitted = <<>>
  /\ \E s \in sets : setId(s) = <<"m1", 1>> /\ ~s.played /\ s.registration1Score = 1
  /\ ~matches["m1"].played

STORAGE_FAILURE == "storage failure"
SET_UPDATE_FAILED == "Failed to update set"

Store ==
  [event |-> event, groups |-> groups, registrations |-> registrations,
   matches |-> matches, sets |-> sets]

\* the locals of a handler: the set row and match row it read, the row
\* returned by its update, the played sets and winner it computed, the
\* registration row and the flag it read last; begin is the store as it was
\* when the handler made its first read
Request(op, target, args, faulty) ==
  [op |-> op, target |-> target, args |-> args, faulty |-> faulty,
   pc |-> IF op = "updateMatch" THEN "readMatch" ELSE "readSet",
   err |-> "", emitted |-> <<>>,
   setData |-> newSet(NULL, 0),
   match |-> mkMatch(NULL, NULL, NULL, FALSE, NULL, 0, NULL, 0),
   updated |-> newSet(NULL, 0),
   playedSets |-> <<>>, winnerId |-> NULL,
   reg |-> newRegistration, flag |-> FALSE,
   begin |-> [event |-> mkEvent("groups", 1), groups |-> <<>>,
              registrations |-> <<>>, matches |-> <<>>, sets |-> {}]]

markRequest(id, faulty) == Request("markSetPlayed", id, [played |-> TRUE], faulty)

editRequest(id, registration1Score, registration2Score, played) ==
  Request("updateSetScore", id,
          [registration1Score |-> registration1Score,
           registration2Score |-> registration2Score, played |-> played], FALSE)

matchRequest(matchId, played, faulty) ==
  Request("updateMatch", <<matchId, 0>>,
          [played |-> played, matchDate |-> "undefined"], faulty)

\* socket.emit(SOCKET_EVENTS.ERROR, e); return
Refuse(p, e) == [p EXCEPT !.pc = "done", !.err = e]

At(i, op, pc) ==
  /\ i \in DOMAIN procs
  /\ procs[i].op = op
  /\ procs[i].pc = pc

\* the statements that write; a faulty request may have any of them throw
WritePcs == {"writeSet", "writeMatch", "writeReg1", "writeReg2", "writeSlot",
             "writeGroup", "writeEvent"}

\* select().from(sets).where(eq(sets.matchId, matchId)).orderBy(asc(setNumber))
\* that returns the first row only
selectPlayedSets_firstOnly(T, matchId) ==
  LET allSets == orderBySetNumber(setsOfMatch(T, matchId))
  IN  filterPlayed(SubSeq(allSets, 1, 1))

selectPlayedSets(T, matchId) ==
  LET allSets == orderBySetNumber(setsOfMatch(T, matchId))
  IN  filterPlayed(allSets)

\* where markSetPlayed goes after the format's completion handler
afterCompletion(p) == IF p.match.groupId # NULL THEN "readGroup" ELSE "readEvent"

afterMatchWrite(p) ==
  IF isGroupsFormat(event.format)
  THEN IF p.match.registration1Id = NULL \/ p.match.registration2Id = NULL
       THEN afterCompletion(p) ELSE "readReg1"
  ELSE IF isSingleEliminationFormat(event.format)
  THEN IF p.match.winnerTo # NULL /\ p.match.winnerToSlot # 0 /\ p.winnerId # NULL
       THEN "writeSlot" ELSE afterCompletion(p)
  ELSE afterCompletion(p)

MarkReadSet(i) ==
  /\ At(i, "markSetPlayed", "readSet")
  /\ LET p == procs[i]
         rows == setById(sets, p.target)
     IN  procs' = [procs EXCEPT ![i] =
           IF rows = {} THEN Refuse([p EXCEPT !.begin = Store], SET_NOT_FOUND)
           ELSE LET setData == CHOOSE s \in rows : TRUE
                IN  IF setData.played
                    THEN Refuse([p EXCEPT !.begin = Store], SET_ALREADY_PLAYED)
                    ELSE [p EXCEPT !.begin = Store, !.setData = setData,
                                   !.pc = "readMatch"]]
  /\ UNCHANGED <<dbVars, resp, rsPlayedSets, rsBestOf, rsMatch, rsResult, session>>

\* the match row, then the event row and the authorization of the user (an
\* authorized one here); no request writes what these two look at
MarkReadMatch(i) ==
  /\ At(i, "markSetPlayed", "readMatch")
  /\ LET p == procs[i]
         matchId == p.setData.matchId
     IN  procs' = [procs EXCEPT ![i] =
           IF matchId \notin DOMAIN matches THEN Refuse(p, MATCH_NOT_FOUND)
           ELSE [p EXCEPT !.match = matches[matchId], !.pc = "validate"]]
  /\ UNCHANGED <<dbVars, resp, rsPlayedSets, rsBestOf, rsMatch, rsResult, session>>

\* validateSetPlayed(setId, setData.registration1Score, setData.registration2Score):
\* the scores are the ones read at the start, the previous sets are read now
MarkValidate(i) ==
  /\ At(i, "markSetPlayed", "validate")
  /\ LET p == procs[i]
         playedValidation == validateSetPlayed(sets, p.target,
                                               p.setData.registration1Score,
                                               p.setData.registration2Score)
     IN  procs' = [procs EXCEPT ![i] =
           IF playedValidation # "" THEN Refuse(p, playedValidation)
           ELSE [p EXCEPT !.pc = "writeSet"]]
  /\ UNCHANGED <<dbVars, resp, rsPlayedSets, rsBestOf, rsMatch, rsResult, session>>

\* update(sets).set({ played: true }).where(eq(sets.id, setId)).returning()
MarkWriteSet(i) ==
  /\ At(i, "markSetPlayed", "writeSet")
  /\ LET p == procs[i]
         rows == setById(sets, p.target)
     IN  IF rows = {}
         THEN /\ procs' = [procs EXCEPT ![i] = Refuse(p, SET_UPDATE_FAILED)]
              /\ UNCHANGED sets
         ELSE LET updated == [(CHOOSE s \in rows : TRUE) EXCEPT !.played = TRUE]
              IN  /\ sets' = (sets \ rows) \cup {updated}
                  /\ procs' = [procs EXCEPT ![i] =
                                 [p EXCEPT !.updated = updated, !.pc = "readSets"]]
  /\ UNCHANGED <<event, groups, registrations, matches, resp,
                 rsPlayedSets, rsBestOf, rsMatch, rsResult, session>>

\* the sets of the match are read and the majority decided; with no majority
\* set-played is broadcast and the handler ends
MarkReadSets(i) ==
  /\ At(i, "markSetPlayed", "readSets")
  /\ LET p == procs[i]
         matchId == p.setData.matchId
         playedSets == selectPlayedSets(sets, matchId)
         majorityResult == checkMajorityAndGetWinner(playedSets, event.bestOf, p.match)
         setPlayedData == [name |-> "set-played", matchId |-> matchId,
                           set |-> p.updated, matchCompleted |-> FALSE,
                           winnerId |-> NULL]
     IN  procs' = [procs EXCEPT ![i] =
           IF majorityResult.completed /\ majorityResult.winnerId # NULL
           THEN [p EXCEPT !.playedSets = playedSets,
                          !.winnerId = majorityResult.winnerId,
                          !.pc = "writeMatch"]
           ELSE [p EXCEPT !.playedSets = playedSets, !.pc = "done",
                          !.emitted = <<setPlayedData>>]]
  /\ UNCHANGED <<dbVars, resp, rsPlayedSets, rsBestOf, rsMatch, rsResult, session>>

\* update(matches).set({ played: true, winnerId }).where(eq(matches.id, matchId))
MarkWriteMatch(i) ==
  /\ At(i, "markSetPlayed", "writeMatch")
  /\ LET p == procs[i]
         matchId == p.setData.matchId
     IN  /\ matches' = [matches EXCEPT ![matchId].played = TRUE,
                                       ![matchId].winnerId = p.winnerId]
         /\ procs' = [procs EXCEPT ![i].pc = afterMatchWrite(p)]
  /\ UNCHANGED <<event, groups, registrations, sets, resp,
                 rsPlayedSets, rsBestOf, rsMatch, rsResult, session>>

\* updateRegistrationStandings: the select of one registration row
MarkReadReg(i) ==
  /\ \E k \in {1, 2} :
       /\ At(i, "markSetPlayed", IF k = 1 THEN "readReg1" ELSE "readReg2")
       /\ LET p == procs[i]
              id == IF k = 1 THEN p.match.registration1Id ELSE p.match.registration2Id
          IN  procs' = [procs EXCEPT ![i] =
                IF id \notin DOMAIN registrations
                THEN [p EXCEPT !.pc = IF k = 1 THEN "readReg2" ELSE afterCompletion(p)]
                ELSE [p EXCEPT !.reg = registrations[id],
                               !.pc = IF k = 1 THEN "writeReg1" ELSE "writeReg2"]]
  /\ UNCHANGED <<dbVars, resp, rsPlayedSets, rsBestOf, rsMatch, rsResult, session>>

\* updateRegistrationStandings: the update of that row, computed from the row
\* as it was read
MarkWriteReg(i) ==
  /\ \E k \in {1, 2} :
       /\ At(i, "markSetPlayed", IF k = 1 THEN "writeReg1" ELSE "writeReg2")
            /\ LET p == procs[i]
              id == IF k = 1 THEN p.match.registration1Id ELSE p.match.registration2Id
              matchPoints == calculateMatchPoints(p.winnerId, p.match.registration1Id,
                                                  p.match.registration2Id,
                                                  event.pointsPerWin, event.pointsPerLoss)
              setResults == calculateSetPoints(p.playedSets)
              asRead == [registrations EXCEPT ![id] = p.reg]
          IN  /\ registrations' =
                   IF k = 1
                   THEN addStanding(asRead, id, matchPoints.registration1Won,
                                    matchPoints.registration1Points,
                                    setResults.registration1SetsWon,
                                    setResults.registration1SetsLost)
                   ELSE addStanding(asRead, id, matchPoints.registration2Won,
                                    matchPoints.registration2Points,
                                    setResults.registration2SetsWon,
                                    setResults.registration2SetsLost)
              /\ procs' = [procs EXCEPT ![i].pc =
                             IF k = 1 THEN "readReg2" ELSE afterCompletion(p)]
  /\ UNCHANGED <<event, groups, matches, sets, resp,
                 rsPlayedSets, rsBestOf, rsMatch, rsResult, session>>

\* handleSingleEliminationMatchCompletion(match, winnerId)
MarkWriteSlot(i) ==
  /\ At(i, "markSetPlayed", "writeSlot")
  /\ LET p == procs[i]
     IN  /\ matches' = handleSingleEliminationMatchCompletion(matches, p.match, p.winnerId)
         /\ procs' = [procs EXCEPT ![i].pc = afterCompletion(p)]
  /\ UNCHANGED <<event, groups, registrations, sets, resp,
                 rsPlayedSets, rsBestOf, rsMatch, rsResult, session>>

\* updateGroupCompletionStatus: the select of the group's matches
MarkReadGroup(i) ==
  /\ At(i, "markSetPlayed", "readGroup")
  /\ LET p == procs[i]
         allMatchesPlayed == \A m \in DOMAIN matches :
                               matches[m].groupId = p.match.groupId => matches[m].played
     IN  procs' = [procs EXCEPT ![i] =
                     [p EXCEPT !.flag = allMatchesPlayed, !.pc = "writeGroup"]]
  /\ UNCHANGED <<dbVars, resp, rsPlayedSets, rsBestOf, rsMatch, rsResult, session>>

\* updateGroupCompletionStatus: the update of the group row
MarkWriteGroup(i) ==
  /\ At(i, "markSetPlayed", "writeGroup")
  /\ LET p == procs[i]
         groupId == p.match.groupId
     IN  /\ groups' = IF groupId \in DOMAIN groups
                      THEN [groups EXCEPT ![groupId].completed = p.flag]
                      ELSE groups
         /\ procs' = [procs EXCEPT ![i].pc = "readEvent"]
  /\ UNCHANGED <<event, registrations, matches, sets, resp,
                 rsPlayedSets, rsBestOf, rsMatch, rsResult, session>>

\* updateEventCompletedStatus: the select of the event's matches
MarkReadEvent(i) ==
  /\ At(i, "markSetPlayed", "readEvent")
  /\ LET p == procs[i]
         completed == /\ DOMAIN matches # {}
                      /\ ~\E m \in DOMAIN matches : ~matches[m].played
     IN  procs' = [procs EXCEPT ![i] =
                     [p EXCEPT !.flag = completed, !.pc = "writeEvent"]]
  /\ UNCHANGED <<dbVars, resp, rsPlayedSets, rsBestOf, rsMatch, rsResult, session>>

\* updateEventCompletedStatus: the update of the event row; then match-completed
\* and set-played are broadcast
MarkWriteEvent(i) ==
  /\ At(i, "markSetPlayed", "writeEvent")
  /\ LET p == procs[i]
         matchId == p.setData.matchId
         matchCompletedData == [name |-> "match-completed", matchId |-> matchId,
                                winnerId |-> p.winnerId]
         setPlayedData == [name |-> "set-played", matchId |-> matchId,
                           set |-> p.updated, matchCompleted |-> TRUE,
                           winnerId |-> p.winnerId]
     IN  /\ event' = [event EXCEPT !.completed = p.flag]
         /\ procs' = [procs EXCEPT ![i] =
                        [p EXCEPT !.pc = "done",
                                  !.emitted = <<matchCompletedData, setPlayedData>>]]
  /\ UNCHANGED <<groups, registrations, matches, sets, resp,
                 rsPlayedSets, rsBestOf, rsMatch, rsResult, session>>

\* a write statement throws: nothing is written by it, the catch block sends
\* error.message to the requester and the handler ends
StorageFailure(i) ==
  /\ i \in DOMAIN procs
  /\ procs[i].faulty
  /\ procs[i].pc \in WritePcs
  /\ procs' = [procs EXCEPT ![i] = Refuse(procs[i], STORAGE_FAILURE)]
  /\ UNCHANGED <<dbVars, resp, rsPlayedSets, rsBestOf, rsMatch, rsResult, session>>

EditReadSet(i) ==
  /\ At(i, "updateSetScore", "readSet")
  /\ LET p == procs[i]
         rows == setById(sets, p.target)
     IN  procs' = [procs EXCEPT ![i] =
           IF rows = {} THEN Refuse([p EXCEPT !.begin = Store], SET_NOT_FOUND)
           ELSE [p EXCEPT !.begin = Store, !.setData = CHOOSE s \in rows : TRUE,
                          !.pc = "readMatch"]]
  /\ UNCHANGED <<dbVars, resp, rsPlayedSets, rsBestOf, rsMatch, rsResult, session>>

\* the match row, then the event row and the authorization of the user
EditReadMatch(i) ==
  /\ At(i, "updateSetScore", "readMatch")
  /\ LET p == procs[i]
         matchId == p.setData.matchId
     IN  procs' = [procs EXCEPT ![i] =
           IF matchId \notin DOMAIN matches THEN Refuse(p, MATCH_NOT_FOUND)
           ELSE [p EXCEPT !.match = matches[matchId], !.pc = "validate"]]
  /\ UNCHANGED <<dbVars, resp, rsPlayedSets, rsBestOf, rsMatch, rsResult, session>>

\* validateSetScore(setId, registration1Score, registration2Score), which
\* reads the set and the match again
EditValidate(i) ==
  /\ At(i, "updateSetScore", "validate")
  /\ LET p == procs[i]
         validation == validateSetScore(sets, matches, p.target,
                                        p.args.registration1Score,
                                        p.args.registration2Score)
     IN  procs' = [procs EXCEPT ![i] =
           IF validation # "" THEN Refuse(p, validation)
           ELSE [p EXCEPT !.pc = IF p.args.played /\ ~p.setData.played
                                 THEN "validatePlayed" ELSE "writeSet"]]
  /\ UNCHANGED <<dbVars, resp, rsPlayedSets, rsBestOf, rsMatch, rsResult, session>>

\* validateSetPlayed(setId, registration1Score, registration2Score)
EditValidatePlayed(i) ==
  /\ At(i, "updateSetScore", "validatePlayed")
  /\ LET p == procs[i]
         playedValidation == validateSetPlayed(sets, p.target,
                                               p.args.registration1Score,
                                               p.args.registration2Score)
     IN  procs' = [procs EXCEPT ![i] =
           IF playedValidation # "" THEN Refuse(p, playedValidation)
           ELSE [p EXCEPT !.pc = "writeSet"]]
  /\ UNCHANGED <<dbVars, resp, rsPlayedSets, rsBestOf, rsMatch, rsResult, session>>

\* update(sets).set(updateData).where(eq(sets.id, setId)).returning(): the
\* scores, and played only when the request marks the set; then
\* match-score-updated is broadcast
EditWriteSet(i) ==
  /\ At(i, "updateSetScore", "writeSet")
  /\ LET p == procs[i]
         rows == setById(sets, p.target)
     IN  IF rows = {}
         THEN /\ procs' = [procs EXCEPT ![i] = Refuse(p, SET_UPDATE_FAILED)]
              /\ UNCHANGED sets
         ELSE LET row == CHOOSE s \in rows : TRUE
                  updated == [row EXCEPT
                    !.registration1Score = p.args.registration1Score,
                    !.registration2Score = p.args.registration2Score,
                    !.played = IF p.args.played /\ ~p.setData.played
                               THEN TRUE ELSE row.played]
              IN  /\ sets' = (sets \ rows) \cup {updated}
                  /\ procs' = [procs EXCEPT ![i] =
                       [p EXCEPT !.updated = updated, !.pc = "done",
                                 !.emitted =
                                   <<[name |-> "match-score-updated",
                                      matchId |-> updated.matchId,
                                      setId |-> p.target,
                                      registration1Score |-> updated.registration1Score,
                                      registration2Score |-> updated.registration2Score,
                                      setNumber |-> updated.setNumber,
                                      played |-> updated.played]>>]]
  /\ UNCHANGED <<event, groups, registrations, matches, resp,
                 rsPlayedSets, rsBestOf, rsMatch, rsResult, session>>

\* updateMatch: the match row, then the event row and the authorization
MatchRead(i) ==
  /\ At(i, "updateMatch", "readMatch")
  /\ LET p == procs[i]
         matchId == p.target[1]
     IN  procs' = [procs EXCEPT ![i] =
           IF matchId \notin DOMAIN matches
           THEN Refuse([p EXCEPT !.begin = Store], MATCH_NOT_FOUND)
           ELSE [p EXCEPT !.begin = Store, !.match = matches[matchId],
                          !.pc = IF p.args.played = "true" /\ ~matches[matchId].played
                                 THEN "validate" ELSE "writeMatch"]]
  /\ UNCHANGED <<dbVars, resp, rsPlayedSets, rsBestOf, rsMatch, rsResult, session>>

\* validateMatchCompletion(matchId); when it names a winner, match-completed
\* is broadcast here
MatchValidate(i) ==
  /\ At(i, "updateMatch", "validate")
  /\ LET p == procs[i]
         matchId == p.target[1]
         validation == validateMatchCompletion(sets, matches, event, matchId)
     IN  procs' = [procs EXCEPT ![i] =
           IF ~validation.valid THEN Refuse(p, validation.error)
           ELSE [p EXCEPT !.winnerId = validation.winnerId,
                          !.pc = "writeMatch",
                          !.emitted =
                            IF validation.winnerId # NULL
                            THEN <<[name |-> "match-completed", matchId |-> matchId,
                                    winnerId |-> validation.winnerId]>>
                            ELSE <<>>]]
  /\ UNCHANGED <<dbVars, resp, rsPlayedSets, rsBestOf, rsMatch, rsResult, session>>

\* update(matches).set(updateData).where(eq(matches.id, matchId))
MatchWrite(i) ==
  /\ At(i, "updateMatch", "writeMatch")
  /\ LET p == procs[i]
         matchId == p.target[1]
         marking == p.args.played = "true" /\ ~p.match.played
         unmarking == p.args.played = "false" /\ p.match.played
         row == matches[matchId]
     IN  /\ matches' = [matches EXCEPT ![matchId] =
              [row EXCEPT
                 !.played = IF marking THEN TRUE
                            ELSE IF unmarking THEN FALSE ELSE row.played,
                 !.winnerId = IF marking THEN p.winnerId
                              ELSE IF unmarking THEN NULL ELSE row.winnerId,
                 !.matchDate = IF p.args.matchDate = "undefined" THEN row.matchDate
                               ELSE p.args.matchDate = "date"]]
         /\ procs' = [procs EXCEPT ![i].pc = "readBack"]
  /\ UNCHANGED <<event, groups, registrations, sets, resp,
                 rsPlayedSets, rsBestOf, rsMatch, rsResult, session>>

\* the match row is read back and match-updated is broadcast
MatchReadBack(i) ==
  /\ At(i, "updateMatch", "readBack")
  /\ LET p == procs[i]
         matchId == p.target[1]
         updatedMatch == matches[matchId]
     IN  procs' = [procs EXCEPT ![i] =
           [p EXCEPT !.pc = "done",
                     !.emitted = p.emitted \o
                       <<[name |-> "match-updated", matchId |-> matchId,
                          played |-> updatedMatch.played,
                          matchDate |-> updatedMatch.matchDate,
                          winnerId |-> updatedMatch.winnerId]>>]]
  /\ UNCHANGED <<dbVars, resp, rsPlayedSets, rsBestOf, rsMatch, rsResult, session>>

\* two dated matches of one group that share registration r1
ScenarioSharedRegistration ==
  [event |-> mkEvent("groups", 1),
   matches |-> [m \in {"m1", "m2"} |->
      IF m = "m1" THEN mkMatch("g1", "r1", "r2", TRUE, NULL, 0, NULL, 0)
      ELSE mkMatch("g1", "r1", "r3", TRUE, NULL, 0, NULL, 0)]]

\* a set row with a score: created by createSet, scored by updateSetScore
scoredSet(m, n, registration1Score, registration2Score, played) ==
  [newSet(m, n) EXCEPT !.registration1Score = registration1Score,
                       !.registration2Score = registration2Score,
                       !.played = played]

\* the stores and the requests that arrive together
Races ==
  {[sc |-> ScenarioSharedRegistration,
    sets |-> {scoredSet("m1", 1, 1, 0, FALSE), scoredSet("m2", 1, 1, 0, FALSE)},
    procs |-> q] :
     q \in {<<markRequest(<<"m1", 1>>, FALSE), markRequest(<<"m1", 1>>, FALSE)>>,
            <<markRequest(<<"m1", 1>>, FALSE), markRequest(<<"m2", 1>>, FALSE)>>,
            <<markRequest(<<"m1", 1>>, TRUE)>>}
          \cup {<<editRequest(<<"m1", 1>>, sp[1], sp[2], pl),
                  markRequest(<<"m1", 1>>, FALSE)>> :
                  sp \in {<<0, 1>>, <<1, 1>>}, pl \in BOOLEAN}}
  \cup
  {[sc |-> ScenarioGroups3,
    sets |-> {scoredSet("m1", 1, 1, 0, FALSE), scoredSet("m1", 2, 1, 0, FALSE)},
    procs |-> <<markRequest(<<"m1", 1>>, FALSE), markRequest(<<"m1", 2>>, FALSE)>>],
   [sc |-> ScenarioSingleElimination,
    sets |-> {scoredSet("m1", 1, 1, 0, FALSE)},
    procs |-> <<markRequest(<<"m1", 1>>, TRUE)>>]}
  \cup
  {[sc |-> ScenarioSharedRegistration,
    sets |-> {scoredSet("m1", 1, 1, 0, TRUE)},
    procs |-> <<matchRequest("m1", "true", f)>>] : f \in BOOLEAN}

InitSteps ==
  /\ \E race \in Races :
       /\ event = race.sc.event
       /\ matches = race.sc.matches
       /\ sets = race.sets
       /\ procs = race.procs
  /\ groups = [g \in GroupIds |-> [completed |-> FALSE]]
  /\ registrations = [r \in RegIds |-> newRegistration]
  /\ resp = NoResp
  /\ rsPlayedSets = <<>>
  /\ rsBestOf = 1
  /\ rsMatch = [registration1Id |-> NULL, registration2Id |-> NULL]
  /\ rsResult = [winnerId |-> NULL, completed |-> FALSE]
  /\ session = NoSession

\* at most two requests are in flight
ProcIds == {1, 2}

NextSteps ==
  \/ \E i \in ProcIds : MarkReadSet(i)
  \/ \E i \in ProcIds : MarkReadMatch(i)
  \/ \E i \in ProcIds : MarkValidate(i)
  \/ \E i \in ProcIds : MarkWriteSet(i)
  \/ \E i \in ProcIds : MarkReadSets(i)
  \/ \E i \in ProcIds : MarkWriteMatch(i)
  \/ \E i \in ProcIds : MarkReadReg(i)
  \/ \E i \in ProcIds : MarkWriteReg(i)
  \/ \E i \in ProcIds : MarkWriteSlot(i)
  \/ \E i \in ProcIds : MarkReadGroup(i)
  \/ \E i \in ProcIds : MarkWriteGroup(i)
  \/ \E i \in ProcIds : MarkReadEvent(i)
  \/ \E i \in ProcIds : MarkWriteEvent(i)
  \/ \E i \in ProcIds : EditReadSet(i)
  \/ \E i \in ProcIds : EditReadMatch(i)
  \/ \E i \in ProcIds : EditValidate(i)
  \/ \E i \in ProcIds : EditValidatePlayed(i)
  \/ \E i \in ProcIds : EditWriteSet(i)
  \/ \E i \in ProcIds : MatchRead(i)
  \/ \E i \in ProcIds : MatchValidate(i)
  \/ \E i \in ProcIds : MatchWrite(i)
  \/ \E i \in ProcIds : MatchReadBack(i)
  \/ \E i \in ProcIds : StorageFailure(i)

SpecSteps == InitSteps /\ [][NextSteps]_vars

\* every request has ended and none met a storage failure
AllDone == \A i \in DOMAIN procs : procs[i].pc = "done"

Accepted(i) == procs[i].pc = "done" /\ procs[i].err = ""

\* the two requests are markSetPlayed on sets of the one match m
TwoMarksOf(m) ==
  /\ Len(procs) = 2
  /\ \A i \in {1, 2} : procs[i].op = "markSetPlayed" /\ procs[i].target[1] = m

\* C23: when two markSetPlayed requests for sets of one match (the same set
\* or two sets) are handled with their statements interleaved, each of the
\* two registrations of the match has its match counters raised by one, never
\* by two (the counters start at zero and no other match is completed)
C23_StandingsAppliedOnce ==
  \A m \in DOMAIN matches :
    TwoMarksOf(m) =>
      \A r \in {matches[m].registration1Id, matches[m].registration2Id} :
        registrations[r].matchesWon + registrations[r].matchesLost <= 1

\* C24: when two markSetPlayed requests on one match are handled with their
\* statements interleaved, both are accepted, and the played sets of the match
\* then give a registration the majority, the match is stored as played with
\* that registration as winner
C24_MajorityCompletesMatch ==
  \A m \in DOMAIN matches :
    (TwoMarksOf(m) /\ Accepted(1) /\ Accepted(2)) =>
      LET playedSets == filterPlayed(orderBySetNumber(setsOfMatch(sets, m)))
          majorityResult == checkMajorityAndGetWinner(playedSets, event.bestOf, matches[m])
      IN  (majorityResult.completed /\ majorityResult.winnerId # NULL) =>
            /\ matches[m].played
            /\ matches[m].winnerId = majorityResult.winnerId

\* best of 3: the request for set 1 saw no majority and broadcast set-played
\* without completion, the request for set 2 completed the match for r1
C24_Witness ==
  /\ TwoMarksOf("m1")
  /\ event.bestOf = 3
  /\ Accepted(1) /\ Accepted(2)
  /\ procs[1].target = <<"m1", 1>> /\ procs[2].target = <<"m1", 2>>
  /\ Len(procs[1].emitted) = 1
  /\ ~procs[1].emitted[1].matchCompleted
  /\ Len(procs[2].emitted) = 2
  /\ matches["m1"].played
  /\ matches["m1"].winnerId = "r1"

\* the two requests are markSetPlayed on sets of two different matches
MarksOfTwoMatches ==
  /\ Len(procs) = 2
  /\ \A i \in {1, 2} : procs[i].op = "markSetPlayed"
  /\ procs[1].target[1] # procs[2].target[1]

\* C25: two completions of different groups-format matches that share a
\* registration and run with their statements interleaved leave that
\* registration's matchesWon, matchesLost, setsWon, setsLost and points equal
\* to what applying the two completions one after the other gives (the
\* standings start at zero; addition makes the two orders agree)
C25_NoLostIncrement ==
  (MarksOfTwoMatches /\ Accepted(1) /\ Accepted(2)
     /\ \A i \in {1, 2} : matches[procs[i].target[1]].played) =>
    LET ma == procs[1].target[1]
        mb == procs[2].target[1]
        R0 == [r \in RegIds |-> newRegistration]
        Ra == handleGroupsMatchCompletion(R0, matches[ma], event, matches[ma].winnerId,
                filterPlayed(orderBySetNumber(setsOfMatch(sets, ma))))
        Rb == handleGroupsMatchCompletion(Ra, matches[mb], event, matches[mb].winnerId,
                filterPlayed(orderBySetNumber(setsOfMatch(sets, mb))))
    IN  \A r \in {matches[ma].registration1Id, matches[ma].registration2Id}
                 \cap {matches[mb].registration1Id, matches[mb].registration2Id} :
          registrations[r] = Rb[r]

\* C26: when an updateSetScore and a markSetPlayed for the same set are
\* handled with their statements interleaved, no score write lands after the
\* set became played: a stored set row that is played is never changed again
C26_NoWriteAfterPlayed ==
  [][\A s \in sets : s.played => s \in sets']_vars

\* C27: an event is broadcast only after the storage writes it announces: a
\* match-completed that has been sent names a match stored as played with
\* that winner, a set-played that has been sent names a set stored as played
\* (no request here unmarks a match or a set)
C27_BroadcastAfterWrite ==
  \A i \in DOMAIN procs :
    \A k \in DOMAIN procs[i].emitted :
      LET e == procs[i].emitted[k]
      IN  /\ e.name = "match-completed" =>
               /\ matches[e.matchId].played
               /\ matches[e.matchId].winnerId = e.winnerId
          /\ e.name = "set-played" =>
               \E s \in setById(sets, setId(e.set)) : s.played

\* C28: when a storage statement of markSetPlayed fails after the set was
\* marked played (the match update, a standings update, the bracket slot
\* write, the group or event flag update), the requester gets an error and
\* the store is as it was when the request began
C28_FailureRollsBack ==
  \A i \in DOMAIN procs :
    (Len(procs) = 1 /\ procs[i].op = "markSetPlayed" /\ procs[i].pc = "done"
       /\ procs[i].err = STORAGE_FAILURE) =>
      Store = procs[i].begin

(***************************************************************************)
(* The socket handlers on knockout brackets whose target match has an      *)
(* empty slot that no match feeds.                                         *)
(***************************************************************************)
\* m1 sends its winner to slot 1 of m2 and its loser to slot 1 of m3; slot 2
\* of m2 is empty and fed by no match, slot 2 of m3 is seeded with r3
ScenarioDoubleElimination ==
  [event |-> mkEvent("double-elimination", 1),
   matches |-> [m \in BracketIds |->
      IF m = "m1" THEN mkMatch(NULL, "r1", "r2", TRUE, "m2", 1, "m3", 1)
      ELSE IF m = "m2" THEN mkMatch(NULL, NULL, NULL, TRUE, NULL, 0, NULL, 0)
      ELSE mkMatch(NULL, NULL, "r3", TRUE, NULL, 0, NULL, 0)]]

\* m1 sends its winner to slot 1 of m2; slot 2 of m2 is empty and fed by no
\* match
ScenarioSingleEliminationBye ==
  [event |-> mkEvent("single-elimination", 1),
   matches |-> [m \in {"m1", "m2"} |->
      IF m = "m1" THEN mkMatch(NULL, "r1", "r2", TRUE, "m2", 1, NULL, 0)
      ELSE mkMatch(NULL, NULL, NULL, TRUE, NULL, 0, NULL, 0)]]

InitKnockout ==
  /\ \E sc \in {ScenarioDoubleElimination, ScenarioSingleEliminationBye} :
       /\ event = sc.event
       /\ matches = sc.matches
  /\ groups = [g \in GroupIds |-> [completed |-> FALSE]]
  /\ registrations = [r \in RegIds |-> newRegistration]
  /\ sets = {}
  /\ resp = NoResp
  /\ rsIdle

SpecKnockout == InitKnockout /\ [][Next]_vars

\* the step is a markSetPlayed that stores match m as played
CompletesByMark(m) ==
  /\ resp'.op = "markSetPlayed"
  /\ resp'.err = ""
  /\ resp'.target[1] = m
  /\ ~matches[m].played
  /\ matches'[m].played

\* C29: when markSetPlayed completes a match of a double-elimination event,
\* the same operation writes the winner into the winnerTo slot, the loser
\* into the loserTo slot, and runs the BYE cascade on both targets: the
\* matches table after the step is the one handleDoubleEliminationMatchCompletion
\* produces from the table with the match stored as played
C29_DoubleEliminationRouted ==
  [][\A m \in DOMAIN matches :
       (isDoubleEliminationFormat(event.format) /\ CompletesByMark(m)) =>
         matches' = handleDoubleEliminationMatchCompletion(
                      [matches EXCEPT ![m].played = TRUE,
                                      ![m].winnerId = matches'[m].winnerId],
                      matches[m], matches'[m].winnerId)]_vars

\* match t has exactly one occupant and no unplayed match feeds it
ResolvedByeShape(M, t) ==
  /\ t \in DOMAIN M
  /\ (M[t].registration1Id # NULL) # (M[t].registration2Id # NULL)
  /\ ~\E f \in DOMAIN M : ~M[f].played /\ (M[f].winnerTo = t \/ M[f].loserTo = t)

\* C30: when markSetPlayed completes a match of a single-elimination event
\* and the winnerTo match is left with exactly one occupant and no unplayed
\* feeder, that target is stored as played with the occupant as winner by
\* the same operation
C30_TargetByeCompleted ==
  [][\A m \in DOMAIN matches :
       (/\ isSingleEliminationFormat(event.format)
        /\ CompletesByMark(m)
        /\ ResolvedByeShape(matches', matches[m].winnerTo)) =>
         LET t == matches[m].winnerTo
         IN  /\ matches'[t].played
             /\ matches'[t].winnerId \in {matches'[t].registration1Id,
                                          matches'[t].registration2Id} \ {NULL}]_vars

\* the step is an accepted updateMatch that stores match m as played
CompletesByUpdateMatch(m) ==
  /\ resp'.op = "updateMatch"
  /\ resp'.err = ""
  /\ resp'.target = <<m, 0>>
  /\ ~matches[m].played
  /\ matches'[m].played

\* C31: an updateMatch with played=true that stores a match as played leaves
\* the store as markSetPlayed leaves it when it completes that match with that
\* winner: the standings update (groups formats) or the winner advance
\* (single elimination) is applied and the completed flags of the group and
\* of the event are recomputed
C31_UpdateMatchCompletesLikeMark ==
  [][\A m \in DOMAIN matches :
       CompletesByUpdateMatch(m) =>
         LET match == matches[m]
             winnerId == matches'[m].winnerId
             playedSets == filterPlayed(orderBySetNumber(setsOfMatch(sets, m)))
             M1 == [matches EXCEPT ![m] = matches'[m]]
             R1 == IF isGroupsFormat(event.format)
                   THEN handleGroupsMatchCompletion(registrations, match, event,
                                                    winnerId, playedSets)
                   ELSE registrations
             M2 == IF ~isGroupsFormat(event.format)
                      /\ isSingleEliminationFormat(event.format)
                   THEN handleSingleEliminationMatchCompletion(M1, match, winnerId)
                   ELSE M1
             G1 == IF match.groupId # NULL
                   THEN updateGroupCompletionStatus(groups, M2, match.groupId)
                   ELSE groups
         IN  /\ registrations' = R1
             /\ matches' = M2
             /\ groups' = G1
             /\ event' = updateEventCompletedStatus(event, M2)]_vars

\* the step is an accepted updateMatch that stores the played match m as
\* not played
UnmarksByUpdateMatch(m) ==
  /\ resp'.op = "updateMatch"
  /\ resp'.err = ""
  /\ resp'.target = <<m, 0>>
  /\ matches[m].played
  /\ ~matches'[m].played

\* C32: an updateMatch with played=false on a played match stores played=false
\* and winnerId=null and changes nothing else (but the match date, when the
\* request carries one): registration counters, every other match and its
\* slots, the sets, and the completed flags of groups and event keep their
\* values
C32_UnmarkFrame ==
  [][\A m \in DOMAIN matches :
       UnmarksByUpdateMatch(m) =>
         /\ matches' = [matches EXCEPT ![m].played = FALSE,
                                       ![m].winnerId = NULL,
                                       ![m].matchDate = matches'[m].matchDate]
         /\ UNCHANGED <<registrations, sets, groups, event>>]_vars

\* m1 was completed by its sets (r1 credited, group and event completed) and
\* has just been unmarked: counters and flags are as the completion left them
C32_Witness ==
  /\ resp.op = "updateMatch"
  /\ resp.err = ""
  /\ resp.target = <<"m1", 0>>
  /\ ~matches["m1"].played
  /\ matches["m1"].winnerId = NULL
  /\ registrations["r1"].matchesWon + registrations["r1"].matchesLost = 1
  /\ event.completed
  /\ groups["g1"].completed
  /\ \E s \in setsOfMatch(sets, "m1") : s.played

\* ---------------------------------------------------------------------------
\* The socket handlers with a record of the requests that changed the played
\* flag of a match: procs keeps, in order, each markSetPlayed and updateMatch
\* request after which a match row was stored with another played flag, with
\* the match row the handler had read.
\* ---------------------------------------------------------------------------
\* at most this many flag-changing requests are followed
MaxRequests == 3

\* the matches whose played flag the step changes
Flipped == {m \in DOMAIN matches : matches'[m].played # matches[m].played}

LogMarkSetPlayed ==
  /\ Len(procs) < MaxRequests
  /\ \E id \in SetIdInputs, auth \in AuthOutcomes :
       /\ markSetPlayed(id, auth)
       /\ procs' = IF Flipped = {} THEN procs
                   ELSE Append(procs, [markRequest(id, FALSE) EXCEPT
                                         !.pc = "done", !.match = matches[id[1]]])
  /\ UNCHANGED <<rsPlayedSets, rsBestOf, rsMatch, rsResult, session>>

LogUpdateMatch ==
  /\ Len(procs) < MaxRequests
  /\ \E matchId \in MatchIds, played \in PlayedInputs :
       /\ updateMatch(matchId, played, "undefined", "")
       /\ procs' = IF Flipped = {} THEN procs
                   ELSE Append(procs, [matchRequest(matchId, played, FALSE) EXCEPT
                                         !.pc = "done", !.match = matches[matchId]])
  /\ UNCHANGED <<rsPlayedSets, rsBestOf, rsMatch, rsResult, session>>

NextLog == CreateSet \/ UpdateSetScore \/ LogMarkSetPlayed \/ LogUpdateMatch

SpecLog == Init /\ [][NextLog]_vars

\* the recorded requests that stored match m as played
Completions(m) ==
  {k \in DOMAIN procs :
     /\ procs[k].target[1] = m
     /\ ~procs[k].match.played
     /\ procs[k].op = "markSetPlayed" \/ procs[k].args.played = "true"}

\* C33: over any sequence of requests each match's played flag goes from
\* false to true at most once
C33_PlayedAtMostOnce ==
  \A m \in MatchIds : Cardinality(Completions(m)) <= 1

\* C34: after every step that changes the played flag of a match of a group,
\* the completed flag of that group equals "every match of the group is
\* played"
C34_GroupFlagFollowsMatches ==
  [][\A m \in DOMAIN matches :
       (matches[m].played # matches'[m].played /\ matches[m].groupId # NULL) =>
         LET g == matches[m].groupId
         IN  groups'[g].completed =
               (\A k \in DOMAIN matches' : matches'[k].groupId = g => matches'[k].played)]_vars

\* C35: a step of the BYE cascade (a call of checkAndAutoAdvanceBye, or the
\* double-elimination handler that ends with it) leaves every played match
\* as it was, and every match it stores as played has exactly one filled
\* slot, that occupant as winnerId, and no unplayed match naming it as
\* winnerTo or loserTo
C35_ByeCascadeGuards ==
  [][ resp'.op \in {"checkAndAutoAdvanceBye", "handleDoubleEliminationMatchCompletion"} =>
        \A m \in DOMAIN matches :
          /\ matches[m].played =>
               /\ matches'[m].played
               /\ matches'[m].winnerId = matches[m].winnerId
          /\ (~matches[m].played /\ matches'[m].played) =>
               /\ (matches'[m].registration1Id = NULL) # (matches'[m].registration2Id = NULL)
               /\ matches'[m].winnerId \in {matches'[m].registration1Id,
                                            matches'[m].registration2Id} \ {NULL}
               /\ ~\E f \in DOMAIN matches' :
                     ~matches'[f].played
                     /\ (matches'[f].winnerTo = m \/ matches'[f].loserTo = m) ]_vars

\* m1 (r1 beat r2) sent r1 to m3, where r3 waits, and r2 to the empty m2:
\* m2 was auto-completed for r2, m3 with both slots filled was not
C35_Witness ==
  /\ resp.op = "handleDoubleEliminationMatchCompletion"
  /\ DOMAIN matches = BracketIds
  /\ matches["m1"].played /\ matches["m1"].winnerId = "r1"
  /\ matches["m1"].registration2Id = "r2"
  /\ matches["m1"].winnerTo = "m3" /\ matches["m1"].loserTo = "m2"
  /\ matches["m2"].played /\ matches["m2"].winnerId = "r2"
  /\ matches["m2"].winnerTo = NULL
  /\ {matches["m3"].registration1Id, matches["m3"].registration2Id} = {"r1", "r3"}
  /\ ~matches["m3"].played

\* ---------------------------------------------------------------------------
\* BYE cascade over brackets whose winnerTo links contain a cycle
\* (checkAndAutoAdvanceBye, match-completion.ts 242-297).  Every match names
\* a winnerTo target inside the bracket, so every bracket of InitCycle holds at
\* least one cycle (self-loops, 2-rings and 3-rings included).
\* ---------------------------------------------------------------------------
CycleOccupants == {<<NULL, NULL>>, <<"r1", NULL>>, <<NULL, "r2">>, <<"r1", "r2">>}

CycleRows ==
  {[mkMatch(NULL, occ[1], occ[2], TRUE, wTo, wSlot, NULL, 1)
      EXCEPT !.played = pl,
             !.winnerId = IF pl THEN (IF occ[1] # NULL THEN occ[1] ELSE occ[2])
                                ELSE NULL] :
     occ \in CycleOccupants, wTo \in BracketIds, wSlot \in 1..2, pl \in BOOLEAN}

InitCycle ==
  /\ event = mkEvent("single-elimination", 1)
  /\ matches \in [BracketIds -> CycleRows]
  /\ groups = [g \in GroupIds |-> [completed |-> FALSE]]
  /\ registrations = [r \in RegIds |-> newRegistration]
  /\ sets = {}
  /\ resp = NoResp
  /\ rsIdle

SpecCycle == InitCycle /\ [][CheckBye]_vars

\* A cascade started on any match of a cyclic bracket never comes back to a
\* match it has already handled in the same invocation: every match it has
\* handled but the last is stored as played, and a match of the cycle that was
\* unplayed when the cascade started is a pending feeder of its successor.
\* The code keeps no visited set and raises no error; the cascade ends by
\* returning at a played, non-BYE-shaped or still-fed match.
CascadeNeverRevisits ==
  [][resp'.op = "checkAndAutoAdvanceBye" =>
       LET calls == checkAndAutoAdvanceBye(matches, resp'.target[1], <<>>).calls
       IN  /\ Cardinality(Visited(calls)) = Len(calls)
           /\ resp'.err = ""]_vars

\* the step answers an updateMatch with played=true on the unplayed match m
\* all of whose existing sets are played
MarksWithAllSetsPlayed(m) ==
  /\ resp'.op = "updateMatch"
  /\ resp'.target = <<m, 0>>
  /\ resp'.err \notin AuthOutcomes \ {""}
  /\ ~matches[m].played
  /\ resp'.err # "" \/ matches'[m].played
  /\ \A s \in setsOfMatch(sets, m) : s.played

\* C37 as stated: for an event with odd bestOf, whenever all existing sets of
\* a match are played, updateMatch with played=true never returns NoMajority
C37_NeverNoMajority ==
  [][\A m \in DOMAIN matches :
       (MarksWithAllSetsPlayed(m) /\ event.bestOf % 2 = 1)
         => resp'.err # NO_MAJORITY]_vars

\* C37 amended: for an event with odd bestOf, when all existing sets of a
\* match are played, updateMatch with played=true returns TiedSeries when the
\* two sides have won equally many sets, NoMajority when the counts differ and
\* neither has reached ceil(bestOf/2), and succeeds otherwise; NoMajority is
\* never returned once the sets won by the two sides total bestOf, and it is
\* never returned while a set of the match is unplayed
C37_NoMajorityOnlyShortSeries ==
  [][\A m \in DOMAIN matches :
       /\ (MarksWithAllSetsPlayed(m) /\ event.bestOf % 2 = 1) =>
            LET playedSets == filterPlayed(orderBySetNumber(setsOfMatch(sets, m)))
                w1 == registration1Wins(playedSets)
                w2 == registration2Wins(playedSets)
            IN  /\ resp'.err = TIED_SERIES <=> w1 = w2
                /\ resp'.err = NO_MAJORITY <=>
                     (w1 # w2 /\ w1 < majorityOf(event.bestOf)
                              /\ w2 < majorityOf(event.bestOf))
                /\ w1 + w2 >= event.bestOf => resp'.err = ""
                /\ resp'.err = NO_MAJORITY => w1 + w2 < event.bestOf
       /\ (resp'.op = "updateMatch" /\ resp'.target = <<m, 0>>
           /\ resp'.err = NO_MAJORITY)
            => \A s \in setsOfMatch(sets, m) : s.played]_vars

\* an updateMatch was rejected with NoMajority on a best-of-3 match whose
\* only set is played
C37_Witness ==
  /\ resp.op = "updateMatch"
  /\ resp.err = NO_MAJORITY
  /\ event.bestOf = 3
  /\ \E m \in DOMAIN matches :
       /\ resp.target = <<m, 0>>
       /\ Cardinality(setsOfMatch(sets, m)) = 1
       /\ \A s \in setsOfMatch(sets, m) : s.played

\* ---------------------------------------------------------------------------
\* One authorized caller playing match m1 set by set: createSet and
\* updateSetScore as whole handlers, markSetPlayed statement by statement
\* (part_003 86-222, 224-353, 355-527).  The caller sends a request only when
\* its previous one has been answered.
\* ---------------------------------------------------------------------------
SeriesScenarios ==
  Scenarios \cup {[ScenarioSingleElimination EXCEPT !.event.bestOf = 3]}

InitSeries ==
  /\ \E sc \in SeriesScenarios :
       /\ event = sc.event
       /\ matches = sc.matches
  /\ sets = {}
  /\ procs = <<>>
  /\ groups = [g \in GroupIds |-> [completed |-> FALSE]]
  /\ registrations = [r \in RegIds |-> newRegistration]
  /\ resp = NoResp
  /\ rsPlayedSets = <<>>
  /\ rsBestOf = 1
  /\ rsMatch = [registration1Id |-> NULL, registration2Id |-> NULL]
  /\ rsResult = [winnerId |-> NULL, completed |-> FALSE]
  /\ session = NoSession

\* no request of the caller is being handled
CallerIdle == \A i \in DOMAIN procs : procs[i].pc = "done"

\* the scores the caller gives: one side ahead
NonDrawPairs == {sc \in ScorePairs : sc[1] # sc[2] /\ sc[1] >= 0 /\ sc[2] >= 0}

UnplayedSetsOf(m) == {s \in setsOfMatch(sets, m) : ~s.played}

\* create-set without a set number
SeriesCreate ==
  /\ CallerIdle
  /\ createSet("m1", FALSE, 0, "")
  /\ UNCHANGED rsVars

\* update-set-score with a non-draw score on a set that is not played
SeriesScore ==
  /\ CallerIdle
  /\ \E s \in UnplayedSetsOf("m1"), sc \in NonDrawPairs :
       updateSetScore(setId(s), sc[1], sc[2], FALSE, "")
  /\ UNCHANGED rsVars

\* mark-set-played on a set that is not played
SeriesMark ==
  /\ CallerIdle
  /\ \E s \in UnplayedSetsOf("m1") : procs' = <<markRequest(setId(s), FALSE)>>
  /\ UNCHANGED <<dbVars, resp, rsPlayedSets, rsBestOf, rsMatch, rsResult, session>>

\* mark-set-played on a set the caller has given a non-draw score
SeriesMarkScored ==
  /\ SeriesMark
  /\ \E s \in UnplayedSetsOf("m1") :
       /\ s.registration1Score # s.registration2Score
       /\ procs'[1].target = setId(s)

\* the next statement of the markSetPlayed being handled
SeriesMarkStep ==
  \/ MarkReadSet(1) \/ MarkReadMatch(1) \/ MarkValidate(1) \/ MarkWriteSet(1)
  \/ MarkReadSets(1) \/ MarkWriteMatch(1) \/ MarkReadReg(1) \/ MarkWriteReg(1)
  \/ MarkWriteSlot(1) \/ MarkReadGroup(1) \/ MarkWriteGroup(1)
  \/ MarkReadEvent(1) \/ MarkWriteEvent(1)

NextSeries ==
  \/ SeriesCreate
  \/ SeriesScore
  \/ SeriesMark
  \/ MarkReadSet(1)
  \/ MarkReadMatch(1)
  \/ MarkValidate(1)
  \/ MarkWriteSet(1)
  \/ MarkReadSets(1)
  \/ MarkWriteMatch(1)
  \/ MarkReadReg(1)
  \/ MarkWriteReg(1)
  \/ MarkWriteSlot(1)
  \/ MarkReadGroup(1)
  \/ MarkWriteGroup(1)
  \/ MarkReadEvent(1)
  \/ MarkWriteEvent(1)

\* the caller keeps sending each request that would be accepted whenever it
\* can be sent, and the server runs every handler to its end (each awaited
\* statement resumes when its query returns)
FairSeries ==
  /\ SF_vars(SeriesCreate /\ resp'.err = "")
  /\ SF_vars(SeriesScore /\ resp'.err = "")
  /\ SF_vars(SeriesMarkScored)
  /\ WF_vars(SeriesMarkStep)

SpecSeries == InitSeries /\ [][NextSeries]_vars /\ FairSeries

\* Scheduled 0, InProgress 1, Decided 2, Played 3
Phase(T, M, m) ==
  IF M[m].played THEN 3
  ELSE IF checkMajorityAndGetWinner(selectPlayedSets(T, m), event.bestOf, M[m]).completed
  THEN 2
  ELSE IF setsOfMatch(T, m) # {} THEN 1
  ELSE 0

\* C38: for a match with a match date, both registrations and odd bestOf,
\* whose caller keeps creating the next set, scoring it non-draw and marking
\* it played, (1) the match eventually is played with a winner, (2) never
\* with more than bestOf played sets, (3) going through Scheduled, InProgress,
\* Decided, Played in that order, one state at a time, and (4) once it is
\* played every createSet is refused and no set is added
C38_SeriesTerminates ==
  /\ <>(matches["m1"].played /\ matches["m1"].winnerId \in {"r1", "r2"})
  /\ [](Cardinality({s \in setsOfMatch(sets, "m1") : s.played}) <= event.bestOf)
  /\ [][LET before == Phase(sets, matches, "m1")
            after == Phase(sets', matches', "m1")
        IN  after = before \/ after = before + 1]_vars
  /\ [][matches["m1"].played =>
          /\ matches'["m1"].played
          /\ setsOfMatch(sets', "m1") = setsOfMatch(sets, "m1")
          /\ (resp' # resp /\ resp'.op = "createSet")
               => resp'.err = MATCH_ALREADY_PLAYED]_vars

\* a best-of-3 match went to three played sets, is played with a winner, and
\* the createSet that followed was refused
C38_Witness ==
  /\ event.bestOf = 3
  /\ matches["m1"].played
  /\ matches["m1"].winnerId \in {"r1", "r2"}
  /\ Cardinality({s \in setsOfMatch(sets, "m1") : s.played}) = 3
  /\ resp.op = "createSet"
  /\ resp.err = MATCH_ALREADY_PLAYED
  /\ procs # <<>> /\ procs[1].pc = "done"

\* C39: once a match is played, createSet, updateSetScore and markSetPlayed
\* on that match are all rejected and change nothing in the store: the sets of
\* the match, its winnerId, the registrations and the other match rows stay
\* as they were
C39_PlayedMatchFrozen ==
  [][\A m \in DOMAIN matches :
       (/\ matches[m].played
        /\ resp'.op \in {"createSet", "updateSetScore", "markSetPlayed"}
        /\ resp'.target[1] = m)
         => /\ resp'.err # ""
            /\ UNCHANGED dbVars]_vars

\* ---------------------------------------------------------------------------
\* The socket handlers on events of every format (schema.ts 276-286: groups,
\* groups-knockout, single-elimination, double-elimination, tests).  m1 is a
\* match of group g1, m2 a bracket match that sends its winner to slot 1 of
\* m3; both kinds of row are present whatever the format, so that the
\* dispatch is seen to follow the format and not the row.
\* ---------------------------------------------------------------------------
EventFormats ==
  {"groups", "groups-knockout", "single-elimination", "double-elimination", "tests"}

ScenarioFormat(format) ==
  [event |-> mkEvent(format, 1),
   matches |-> [m \in BracketIds |->
      IF m = "m1" THEN mkMatch("g1", "r1", "r2", TRUE, NULL, 0, NULL, 0)
      ELSE IF m = "m2" THEN mkMatch(NULL, "r1", "r3", TRUE, "m3", 1, NULL, 0)
      ELSE mkMatch(NULL, NULL, NULL, TRUE, NULL, 0, NULL, 0)]]

InitFormats ==
  /\ \E format \in EventFormats :
       /\ event = ScenarioFormat(format).event
       /\ matches = ScenarioFormat(format).matches
  /\ groups = [g \in GroupIds |-> [completed |-> FALSE]]
  /\ registrations = [r \in RegIds |-> newRegistration]
  /\ sets = {}
  /\ resp = NoResp
  /\ rsIdle

SpecFormats == InitFormats /\ [][Next]_vars

\* C40: a markSetPlayed that completes a match changes registration counters
\* only in a groups or groups-knockout event, writes a slot of another match
\* only in an elimination event, never does both, and in an event of any
\* other format (tests) changes only the set, the row of the match, and the
\* completed flags of the group and of the event
C40_DispatchByFormat ==
  [][\A m \in DOMAIN matches :
       CompletesByMark(m) =>
         LET groupsFormat == event.format \in {"groups", "groups-knockout"}
             eliminationFormat == event.format \in {"single-elimination",
                                                    "double-elimination"}
             countersChanged == registrations' # registrations
             slotWritten == \E t \in DOMAIN matches \ {m} : matches'[t] # matches[t]
         IN  /\ countersChanged => groupsFormat
             /\ slotWritten => eliminationFormat
             /\ ~(countersChanged /\ slotWritten)
             /\ (~groupsFormat /\ ~eliminationFormat) =>
                  /\ registrations' = registrations
                  /\ \A t \in DOMAIN matches \ {m} : matches'[t] = matches[t]
                  /\ Cardinality(sets' \ sets) = 1
                  /\ \A s \in sets' \ sets : s.matchId = m /\ s.played
                  /\ [matches'[m] EXCEPT !.played = FALSE, !.winnerId = NULL] = matches[m]
                  /\ [event' EXCEPT !.completed = FALSE]
                       = [event EXCEPT !.completed = FALSE]
                  /\ DOMAIN groups' = DOMAIN groups]_vars

\* in a tests event the bracket match m2 was completed by markSetPlayed: its
\* target m3 has no occupant and no registration has a counted match
C40_Witness ==
  /\ event.format = "tests"
  /\ resp.op = "markSetPlayed"
  /\ resp.err = ""
  /\ resp.target[1] = "m2"
  /\ Len(resp.emitted) = 2
  /\ matches["m2"].played
  /\ matches["m2"].winnerId \in {"r1", "r3"}
  /\ matches["m3"].registration1Id = NULL
  /\ \A r \in RegIds : registrations[r] = newRegistration
====
